---- MODULE Spec2Model ----
(***************************************************************************)
(* Colorado job tracker: the location matcher (utils/location_matcher.py), *)
(* the streamlit application's batch processing (app.py) and the by-city   *)
(* aggregates of the visualisers.                                          *)
(*                                                                         *)
(* A str is the sequence of its code points.  A table cell is a record     *)
(* [k, s]: k = "str" with text s, k = "nan" (a missing value), k = "None", *)
(* or k = "list" (an object cell holding the two-element list ['a', 'b']). *)
(***************************************************************************)
EXTENDS Integers, Sequences, FiniteSets, TLC

VARIABLES
    backend,        \* SequenceMatcher bound by fuzzywuzzy at import: "difflib" | "levenshtein"
    cities,         \* the city catalog (cities_df / cities): City, Latitude, Longitude[, Population]
    city_variations,\* LocationMatcher.city_variations, a dict in insertion order
    job_data,       \* the caller's table (job_data / df)
    call,           \* the last call made: its arguments and how it ended
    result_df,      \* the table the last batch call returned (NoTable: none)
    runs,           \* number of batch calls made on job_data
    first_call,     \* the first batch call made on job_data and what it returned
    agg,            \* the last aggregate computed from result_df
    data_file,      \* data/colorado_cities_over_50000.csv: its condition and content
    stats,          \* the last matching statistics computed from result_df
    county_geojson  \* data/colorado_counties.geojson: "ok" | "missing"

vars == <<backend, cities, city_variations, job_data, call, result_df, runs,
          first_call, agg, data_file, stats, county_geojson>>

-----------------------------------------------------------------------------
(* Python values *)

Str(s) == [k |-> "str", s |-> s]
None == [k |-> "None", s |-> <<>>]
NaN == [k |-> "nan", s |-> <<>>]
ListCell == [k |-> "list", s |-> <<>>]

\* pd.isna on a scalar
isna(v) == v.k \in {"nan", "None"}

Min(S) == CHOOSE x \in S : \A y \in S : x <= y
Max(S) == CHOOSE x \in S : \A y \in S : x >= y
\* the r-th smallest member of S
Nth(S, r) == CHOOSE x \in S : Cardinality({y \in S : y <= x}) = r

\* a list of n items
list_of(items, n) == SubSeq(items, 1, n)

-----------------------------------------------------------------------------
(* str methods and the character classes of re.  A str is the sequence of    *)
(* its code points; the tables cover Basic Latin, Latin-1 Supplement and     *)
(* Latin Extended-A (code points 0 to 383) and what lower and title map     *)
(* these to (700, 775, 924, 956).                                            *)

IsUpper(c) == c >= 65 /\ c <= 90
IsLower(c) == c >= 97 /\ c <= 122
IsDigit(c) == c >= 48 /\ c <= 57
\* \w of a str pattern: letters, digits and other numeric characters, and _
IsWord(c) ==
    IF c < 128 THEN IsUpper(c) \/ IsLower(c) \/ IsDigit(c) \/ c = 95
    ELSE \/ c \in {170, 178, 179, 181, 185, 186, 188, 189, 190, 700, 924, 956}
         \/ c >= 192 /\ c <= 383 /\ c \notin {215, 247}
\* \s, and the characters str.strip() and str.split() remove
IsSpace(c) == c \in {9, 10, 11, 12, 13, 28, 29, 30, 31, 32, 133, 160}

\* "".join(parts)
concat(parts) ==
    LET at == {p \in (1..Len(parts)) \X (1..2) : p[2] <= Len(parts[p[1]])}
        before(p) == {q \in at : q[1] < p[1] \/ (q[1] = p[1] /\ q[2] < p[2])}
    IN  [r \in 1..Cardinality(at) |->
            LET p == CHOOSE q \in at : Cardinality(before(q)) = r - 1
            IN  parts[p[1]][p[2]]]

\* the lower case of one character
lower_of(c) ==
    IF c < 128 THEN <<(IF IsUpper(c) THEN c + 32 ELSE c)>>
    ELSE IF c >= 192 /\ c <= 222 /\ c # 215 THEN <<c + 32>>
    ELSE IF c = 304 THEN <<105, 775>>
    ELSE IF c = 376 THEN <<255>>
    ELSE IF c = 924 THEN <<956>>
    ELSE IF \/ c >= 256 /\ c <= 310 /\ c % 2 = 0
            \/ c >= 313 /\ c <= 327 /\ c % 2 = 1
            \/ c >= 330 /\ c <= 374 /\ c % 2 = 0
            \/ c >= 377 /\ c <= 381 /\ c % 2 = 1
    THEN <<c + 1>>
    ELSE <<c>>

\* str.lower()
lower(s) ==
    IF \A i \in 1..Len(s) : s[i] # 304
    THEN [i \in 1..Len(s) |-> lower_of(s[i])[1]]
    ELSE concat([i \in 1..Len(s) |-> lower_of(s[i])])

\* str.strip()
strip(s) ==
    LET keep == {i \in 1..Len(s) : ~IsSpace(s[i])}
    IN  IF keep = {} THEN <<>> ELSE SubSeq(s, Min(keep), Max(keep))

\* str.replace(' ', '')
remove_spaces(s) == SelectSeq(s, LAMBDA c : c # 32)

\* str.title(): a character that follows a cased character in lower case,
\* every other character in title case
title(s) ==
    LET title_of(c) ==
            IF c < 128 THEN <<(IF IsLower(c) THEN c - 32 ELSE c)>>
            ELSE IF c >= 224 /\ c <= 254 /\ c # 247 THEN <<c - 32>>
            ELSE IF c = 181 THEN <<924>>
            ELSE IF c = 223 THEN <<83, 115>>
            ELSE IF c = 255 THEN <<376>>
            ELSE IF c = 305 THEN <<73>>
            ELSE IF c = 329 THEN <<700, 78>>
            ELSE IF c = 383 THEN <<83>>
            ELSE IF c = 956 THEN <<924>>
            ELSE IF \/ c >= 257 /\ c <= 311 /\ c % 2 = 1
                    \/ c >= 314 /\ c <= 328 /\ c % 2 = 0
                    \/ c >= 331 /\ c <= 375 /\ c % 2 = 1
                    \/ c >= 378 /\ c <= 382 /\ c % 2 = 0
            THEN <<c - 1>>
            ELSE <<c>>
        IsCased(c) ==
            IF c < 128 THEN IsUpper(c) \/ IsLower(c)
            ELSE \/ c \in {170, 181, 186, 924, 956}
                 \/ c >= 192 /\ c <= 383 /\ c \notin {215, 247}
        parts == [i \in 1..Len(s) |->
                     IF i > 1 /\ IsCased(s[i - 1]) THEN lower_of(s[i])
                     ELSE title_of(s[i])]
    IN  IF \A i \in 1..Len(s) : Len(parts[i]) = 1
        THEN [i \in 1..Len(s) |-> parts[i][1]]
        ELSE concat(parts)

\* \b at the position before s[p] (p = Len(s) + 1: the end of the string)
WordBoundary(s, p) ==
    LET before == p > 1 /\ p - 1 <= Len(s) /\ IsWord(s[p - 1])
        after == p >= 1 /\ p <= Len(s) /\ IsWord(s[p])
    IN  before # after

MatchesAt(s, p, w) ==
    /\ p + Len(w) - 1 <= Len(s)
    /\ SubSeq(s, p, p + Len(w) - 1) = w

\* \b(w1|w2|...)\b tried at p: the first alternative, in pattern order, with
\* which the whole pattern matches; 0 when none does
FirstAlt(s, p, alts) ==
    LET whole == {k \in 1..Len(alts) : /\ WordBoundary(s, p)
                                       /\ MatchesAt(s, p, alts[k])
                                       /\ WordBoundary(s, p + Len(alts[k]))}
    IN  IF whole = {} THEN 0 ELSE Min(whole)

\* the leftmost position from p on at which the pattern matches; 0 when none
LeftmostMatch(s, p, alts) ==
    LET found == {q \in p..Len(s) : FirstAlt(s, q, alts) # 0}
    IN  IF found = {} THEN 0 ELSE Min(found)

\* re.sub(r'\b(w1|w2|...)\b', '', s) from position p on: leftmost matches,
\* not overlapping
RECURSIVE SubWords(_, _, _)
\* q is the leftmost match from p on
SubWordsFrom(s, p, alts, q) ==
    IF q = 0 THEN SubSeq(s, p, Len(s))
    ELSE SubSeq(s, p, q - 1)
         \o SubWords(s, q + Len(alts[FirstAlt(s, q, alts)]), alts)

SubWords(s, p, alts) == SubWordsFrom(s, p, alts, LeftmostMatch(s, p, alts))

\* re.sub(r'[^\w\s]', ' ', s)
SubNonWord(s) ==
    [i \in 1..Len(s) |-> IF IsWord(s[i]) \/ IsSpace(s[i]) THEN s[i] ELSE 32]

\* re.sub(r'\s+', ' ', s): a space for the first character of a run of
\* whitespace, nothing (-1) for the others
SubSpaces(s) ==
    SelectSeq([p \in 1..Len(s) |->
                  IF ~IsSpace(s[p]) THEN s[p]
                  ELSE IF p > 1 /\ IsSpace(s[p - 1]) THEN -1
                  ELSE 32],
              LAMBDA c : c # -1)

\* re.split(r'[,;]', s)[0] and str.split(',')[0]
FirstPart(s, seps) ==
    LET at == {i \in 1..Len(s) : s[i] \in seps}
    IN  IF at = {} THEN s ELSE SubSeq(s, 1, Min(at) - 1)

\* str.split(): the maximal runs of non-whitespace characters, in order
split(s) ==
    LET first == {p \in 1..Len(s) :
                     ~IsSpace(s[p]) /\ (p = 1 \/ IsSpace(s[p - 1]))}
        last == {p \in 1..Len(s) :
                    ~IsSpace(s[p]) /\ (p = Len(s) \/ IsSpace(s[p + 1]))}
    IN  list_of([r \in 1..Cardinality(first) |->
                    SubSeq(s, Nth(first, r), Nth(last, r))],
                Cardinality(first))

\* str < str: by code point, a proper prefix first
StrLess(a, b) ==
    LET differ == {i \in 1..Min({Len(a), Len(b)}) : a[i] # b[i]}
    IN  IF differ = {} THEN Len(a) < Len(b)
        ELSE a[Min(differ)] < b[Min(differ)]

\* sorted(tokens): a token comes after the smaller ones, and after the equal
\* ones that precede it
sorted(ts) ==
    LET rank(i) == 1 + Cardinality({j \in 1..Len(ts) :
                                       \/ StrLess(ts[j], ts[i])
                                       \/ ts[j] = ts[i] /\ j < i})
    IN  list_of([r \in 1..Len(ts) |->
                    ts[CHOOSE i \in 1..Len(ts) : rank(i) = r]],
                Len(ts))

\* " ".join(tokens)
RECURSIVE join(_)
join(ts) ==
    IF ts = <<>> THEN <<>>
    ELSE IF Len(ts) = 1 THEN ts[1]
    ELSE ts[1] \o <<32>> \o join(Tail(ts))

-----------------------------------------------------------------------------
(* fuzzywuzzy: utils.full_process, fuzz.token_sort_ratio, process.extractOne *)

\* utils.full_process(s, force_ascii): with force_ascii the characters
\* chr(128) to chr(255) are dropped (asciidammit); then every \W character is
\* replaced by a space, and the str is put in lower case and stripped
full_process(s, force_ascii) ==
    LET ascii == IF force_ascii
                 THEN SelectSeq(s, LAMBDA c : c < 128 \/ c > 255)
                 ELSE s
        spaced == [i \in 1..Len(ascii) |->
                      IF IsWord(ascii[i]) THEN ascii[i] ELSE 32]
    IN  strip(lower(spaced))

\* fuzz._process_and_sort(s, force_ascii, full_process=False)
process_and_sort(s) == strip(join(sorted(split(s))))

\* length of the common run of a[i..ahi] and b[j..bhi] starting at (i, j)
RunLength(a, b, i, j, ahi, bhi) ==
    IF i > ahi \/ j > bhi THEN 0
    ELSE Max({k \in 0..Min({ahi - i + 1, bhi - j + 1}) :
                 \A t \in 0..(k - 1) : a[i + t] = b[j + t]})

\* the longest of the blocks, of those the one starting earliest in a, and of
\* those the one starting earliest in b; a block of size 0 when there is none
LongestBlock(blocks) ==
    IF blocks = {} THEN [i |-> 0, j |-> 0, k |-> 0]
    ELSE LET k == Max({m.k : m \in blocks})
             i == Min({m.i : m \in {o \in blocks : o.k = k}})
             j == Min({m.j : m \in {o \in blocks : o.k = k /\ o.i = i}})
         IN  [i |-> i, j |-> j, k |-> k]

\* difflib.SequenceMatcher(None, a, b).find_longest_match(alo, ahi, blo, bhi),
\* positions counted from 1 and ahi, bhi the last ones.  No character is junk.
\* With autojunk and b of 200 characters or more, a character that stands in
\* b more than len(b) // 100 + 1 times is popular: the longest block without
\* popular characters is found first, and is then extended to the left and
\* to the right while the characters match
find_longest_match(a, b, alo, ahi, blo, bhi) ==
    LET n == Len(b)
        popular == IF n < 200 THEN {}
                   ELSE {c \in {b[j] : j \in 1..n} :
                            Cardinality({j \in 1..n : b[j] = c}) > n \div 100 + 1}
        plain(i, j) ==
            Max({k \in 0..Min({ahi - i + 1, bhi - j + 1}) :
                    \A t \in 0..(k - 1) :
                        a[i + t] = b[j + t] /\ b[j + t] \notin popular})
        found == LongestBlock(
                     {[i |-> p[1], j |-> p[2], k |-> plain(p[1], p[2])] :
                         p \in {q \in (alo..ahi) \X (blo..bhi) :
                                   /\ a[q[1]] = b[q[2]]
                                   /\ b[q[2]] \notin popular}})
        core == IF found.k = 0 THEN [i |-> alo, j |-> blo, k |-> 0] ELSE found
        left == Max({u \in 0..Min({core.i - alo, core.j - blo}) :
                       \A t \in 1..u : a[core.i - t] = b[core.j - t]})
        right == RunLength(a, b, core.i + core.k, core.j + core.k, ahi, bhi)
        whole == LongestBlock(
                     {[i |-> p[1], j |-> p[2],
                       k |-> RunLength(a, b, p[1], p[2], ahi, bhi)] :
                         p \in {q \in (alo..ahi) \X (blo..bhi) :
                                   a[q[1]] = b[q[2]]}})
    IN  IF popular = {}
        THEN (IF whole.k = 0 THEN [i |-> alo, j |-> blo, k |-> 0] ELSE whole)
        ELSE [i |-> core.i - left, j |-> core.j - left,
              k |-> left + core.k + right]

\* difflib.SequenceMatcher.get_matching_blocks: the total size of the blocks
RECURSIVE MatchingSize(_, _, _, _, _, _)
\* the block m, and the blocks to its left and to its right
AroundBlock(a, b, alo, ahi, blo, bhi, m) ==
    IF m.k = 0 THEN 0
    ELSE m.k
         + MatchingSize(a, b, alo, m.i - 1, blo, m.j - 1)
         + MatchingSize(a, b, m.i + m.k, ahi, m.j + m.k, bhi)

MatchingSize(a, b, alo, ahi, blo, bhi) ==
    IF alo > ahi \/ blo > bhi THEN 0
    ELSE AroundBlock(a, b, alo, ahi, blo, bhi,
                     find_longest_match(a, b, alo, ahi, blo, bhi))

\* the longest-common-subsequence table, row by row: row[j + 1] is the length
\* for a prefix of a and the first j characters of b; the row after prev, for
\* the prefix that ends with c
LcsRow(prev, c, b) ==
    IF Len(prev) = 0 THEN prev
    ELSE list_of([j \in 1..Len(prev) |->
                     Max({prev[j]}
                         \cup {prev[u] + 1 : u \in {v \in 1..(j - 1) : b[v] = c}})],
                 Len(prev))

\* the row of the table for the first i characters of a
RECURSIVE LcsRows(_, _, _)
LcsRows(a, b, i) ==
    IF i = 0 THEN [j \in 1..(Len(b) + 1) |-> 0]
    ELSE LcsRow(LcsRows(a, b, i - 1), a[i], b)

\* Levenshtein.ratio counts a substitution as two edits, so the distance is
\* len(a) + len(b) - 2 * lcs(a, b)
LcsLength(a, b) ==
    IF Len(a) <= Len(b) THEN LcsRows(a, b, Len(a))[Len(b) + 1]
    ELSE LcsRows(b, a, Len(b))[Len(a) + 1]

\* utils.intr(100 * m.ratio()), m.ratio() = 2.0 * matches / (len(a) + len(b)):
\* int(round(x)) of the float x = 100 * (2.0 * matches / total).  x is within
\* 1e-13 of q + r / total, so it rounds as that number does unless that
\* number is a half, q + 1/2.  Then 2.0 * matches / total is the float nearest
\* to (2q + 1) / 200, and x is below the half for 2q + 1 in {29, 57, 113, 115},
\* above it for 2q + 1 in {7, 55, 109, 111} and the half itself for every
\* other q up to 99; round() rounds a half to the even integer
round_half_even(q, r, total) ==
    IF 2 * r > total THEN q + 1
    ELSE IF 2 * r < total THEN q
    ELSE IF 2 * q + 1 \in {29, 57, 113, 115} THEN q
    ELSE IF 2 * q + 1 \in {7, 55, 109, 111} THEN q + 1
    ELSE IF q % 2 = 0 THEN q ELSE q + 1

intr_ratio(matches, total) ==
    round_half_even((200 * matches) \div total, (200 * matches) % total, total)

\* fuzz.ratio(s1, s2) with its decorators check_for_equivalence and
\* check_empty_string
ratio(s1, s2) ==
    IF s1 = s2 THEN 100
    ELSE IF Len(s1) = 0 \/ Len(s2) = 0 THEN 0
    ELSE intr_ratio(IF backend = "difflib"
                    THEN MatchingSize(s1, s2, 1, Len(s1), 1, Len(s2))
                    ELSE LcsLength(s1, s2),
                    Len(s1) + Len(s2))

\* fuzz.token_sort_ratio(s1, s2, full_process=False)
token_sort_ratio(s1, s2) == ratio(process_and_sort(s1), process_and_sort(s2))

\* process.extractOne(query, choices, scorer=fuzz.token_sort_ratio): the first
\* choice with the greatest score, with its score; None for no choices.  The
\* query goes through the default processor, full_process(query), and then,
\* like every choice, through full_process(.., force_ascii=True)
NoneFound == [found |-> FALSE, choice |-> <<>>, score |-> 0]

\* the score of every choice, in order
scores_of(processed_query, choices) ==
    list_of([i \in 1..Len(choices) |->
                token_sort_ratio(processed_query,
                                 full_process(choices[i], TRUE))],
            Len(choices))

\* best_of keeping the last of equal scores
best_of_last(choices, scores) ==
    IF choices = <<>> THEN NoneFound
    ELSE [found |-> TRUE,
          choice |-> choices[Max({i \in 1..Len(choices) :
                                     \A j \in 1..Len(choices) :
                                         scores[j] <= scores[i]})],
          score |-> Max({scores[i] : i \in 1..Len(choices)})]

\* max(best_list, key=lambda i: i[1]) keeps the first of equal scores
best_of(choices, scores) ==
    IF choices = <<>> THEN NoneFound
    ELSE [found |-> TRUE,
          choice |-> choices[Min({i \in 1..Len(choices) :
                                     \A j \in 1..Len(choices) :
                                         scores[j] <= scores[i]})],
          score |-> Max({scores[i] : i \in 1..Len(choices)})]

extractOne(query, choices) ==
    best_of(choices,
            scores_of(full_process(full_process(query, FALSE), TRUE), choices))

-----------------------------------------------------------------------------
(* utils/location_matcher.py: LocationMatcher *)

\* a dict in insertion order: a sequence of <<key, value>> pairs
DictKeys(d) == [i \in 1..Len(d) |-> d[i][1]]
DictHas(d, key) == \E i \in 1..Len(d) : d[i][1] = key
DictGet(d, key) == d[CHOOSE i \in 1..Len(d) : d[i][1] = key][2]
\* d[key] = value for every key of keys, in order: a key already present
\* keeps its place, a new key is added at the end
DictSetAll(d, keys, value) ==
    [i \in 1..Len(d) |->
        IF \E k \in 1..Len(keys) : keys[k] = d[i][1]
        THEN <<d[i][1], value>> ELSE d[i]]
    \o SelectSeq([k \in 1..Len(keys) |->
                      IF \/ DictHas(d, keys[k])
                         \/ \E j \in 1..(k - 1) : keys[j] = keys[k]
                      THEN <<>> ELSE <<keys[k], value>>],
                  LAMBDA e : e # <<>>)

ColoradoSprings == <<67, 111, 108, 111, 114, 97, 100, 111, 32, 83, 112, 114, 105, 110, 103, 115>> \* "Colorado Springs"
FortCollins == <<70, 111, 114, 116, 32, 67, 111, 108, 108, 105, 110, 115>> \* "Fort Collins"
GrandJunction == <<71, 114, 97, 110, 100, 32, 74, 117, 110, 99, 116, 105, 111, 110>> \* "Grand Junction"
CastleRock == <<67, 97, 115, 116, 108, 101, 32, 82, 111, 99, 107>> \* "Castle Rock"
HighlandsRanch == <<72, 105, 103, 104, 108, 97, 110, 100, 115, 32, 82, 97, 110, 99, 104>> \* "Highlands Ranch"
SecurityWidefield == <<83, 101, 99, 117, 114, 105, 116, 121, 45, 87, 105, 100, 101, 102, 105, 101, 108, 100>> \* "Security-Widefield"

\* the hand-written abbreviations of _create_city_variations, in the order
\* they are assigned
Abbreviations(city) ==
    IF city = ColoradoSprings THEN
        \* "colo springs", "colorado spring", "co springs", "springs"
        <<<<99, 111, 108, 111, 32, 115, 112, 114, 105, 110, 103, 115>>,
       <<99, 111, 108, 111, 114, 97, 100, 111, 32, 115, 112, 114, 105, 110, 103>>,
       <<99, 111, 32, 115, 112, 114, 105, 110, 103, 115>>,
       <<115, 112, 114, 105, 110, 103, 115>>>>
    ELSE IF city = FortCollins THEN
        \* "ft collins", "fort collin", "ft collin"
        <<<<102, 116, 32, 99, 111, 108, 108, 105, 110, 115>>,
       <<102, 111, 114, 116, 32, 99, 111, 108, 108, 105, 110>>,
       <<102, 116, 32, 99, 111, 108, 108, 105, 110>>>>
    ELSE IF city = GrandJunction THEN
        \* "grand jct", "grand jnct", "gj"
        <<<<103, 114, 97, 110, 100, 32, 106, 99, 116>>,
       <<103, 114, 97, 110, 100, 32, 106, 110, 99, 116>>,
       <<103, 106>>>>
    ELSE IF city = CastleRock THEN
        \* "castle rock", "castlerock"
        <<<<99, 97, 115, 116, 108, 101, 32, 114, 111, 99, 107>>,
       <<99, 97, 115, 116, 108, 101, 114, 111, 99, 107>>>>
    ELSE IF city = HighlandsRanch THEN
        \* "highlands ranch", "hr"
        <<<<104, 105, 103, 104, 108, 97, 110, 100, 115, 32, 114, 97, 110, 99, 104>>,
       <<104, 114>>>>
    ELSE IF city = SecurityWidefield THEN
        \* "security", "widefield"
        <<<<115, 101, 99, 117, 114, 105, 116, 121>>,
       <<119, 105, 100, 101, 102, 105, 101, 108, 100>>>>
    ELSE <<>>

\* the keys _create_city_variations assigns for a city, in order
VariationKeys(city) ==
    <<lower(city), remove_spaces(lower(city))>> \o Abbreviations(city)

\* LocationMatcher._create_city_variations: the dict after the first n cities
RECURSIVE create_city_variations(_, _)
create_city_variations(city_names, n) ==
    IF n = 0 THEN <<>>
    ELSE DictSetAll(create_city_variations(city_names, n - 1),
                    VariationKeys(city_names[n]), city_names[n])

\* the alternatives of the two word patterns, in pattern order
\* co | colorado | usa | us | united states
StateTokens ==
    <<<<99, 111>>,
       <<99, 111, 108, 111, 114, 97, 100, 111>>,
       <<117, 115, 97>>,
       <<117, 115>>,
       <<117, 110, 105, 116, 101, 100, 32, 115, 116, 97, 116, 101, 115>>>>
\* remote | hybrid | onsite | office | downtown | metro | area
NoiseWords ==
    <<<<114, 101, 109, 111, 116, 101>>,
       <<104, 121, 98, 114, 105, 100>>,
       <<111, 110, 115, 105, 116, 101>>,
       <<111, 102, 102, 105, 99, 101>>,
       <<100, 111, 119, 110, 116, 111, 119, 110>>,
       <<109, 101, 116, 114, 111>>,
       <<97, 114, 101, 97>>>>

\* LocationMatcher._clean_location, for a str cell or a missing value
clean_location_text(s) ==
    IF s = <<>> \/ strip(s) = <<>> THEN <<>>
    ELSE strip(SubSpaces(SubNonWord(SubWords(strip(lower(s)), 1, StateTokens))))

_clean_location(location) ==
    IF isna(location) THEN <<>> ELSE clean_location_text(location.s)

\* LocationMatcher._extract_city_from_location
_extract_city_from_location(location) ==
    strip(SubWords(strip(FirstPart(_clean_location(location), {44, 59})), 1,
                   NoiseWords))

\* a call's outcome: a (city, confidence) pair, or the exception it raised
Returned(city, confidence) == [city |-> city, conf |-> confidence, exc |-> "none"]
Raised(exc) == [city |-> None, conf |-> 0, exc |-> exc]

\* fuzzy_stages with the alias stage returning the key it matched instead of
\* the city the key stands for
fuzzy_stages_alias_key(best_match, variation_matches, variations, fuzzy_threshold) ==
    IF best_match.found /\ best_match.score >= fuzzy_threshold
    THEN Returned(Str(best_match.choice), best_match.score)
    ELSE IF variation_matches.found /\ variation_matches.score >= fuzzy_threshold
    THEN Returned(Str(variation_matches.choice), variation_matches.score)
    ELSE Returned(None, 0)

\* fuzzy_stages with both comparisons turned round: a score at or below the
\* threshold is accepted
fuzzy_stages_below(best_match, variation_matches, variations, fuzzy_threshold) ==
    IF best_match.found /\ best_match.score <= fuzzy_threshold
    THEN Returned(Str(best_match.choice), best_match.score)
    ELSE IF variation_matches.found /\ variation_matches.score <= fuzzy_threshold
    THEN Returned(Str(DictGet(variations, variation_matches.choice)),
                  variation_matches.score)
    ELSE Returned(None, 0)

\* fuzzy_stages with the alias keys tried before the city names
fuzzy_stages_alias_first(best_match, variation_matches, variations, fuzzy_threshold) ==
    IF variation_matches.found /\ variation_matches.score >= fuzzy_threshold
    THEN Returned(Str(DictGet(variations, variation_matches.choice)),
                  variation_matches.score)
    ELSE IF best_match.found /\ best_match.score >= fuzzy_threshold
    THEN Returned(Str(best_match.choice), best_match.score)
    ELSE Returned(None, 0)

\* the fuzzy stages of match_location_to_city
fuzzy_stages(best_match, variation_matches, variations, fuzzy_threshold) ==
    IF best_match.found /\ best_match.score >= fuzzy_threshold
    THEN Returned(Str(best_match.choice), best_match.score)
    ELSE IF variation_matches.found /\ variation_matches.score >= fuzzy_threshold
    THEN Returned(Str(DictGet(variations, variation_matches.choice)),
                  variation_matches.score)
    ELSE Returned(None, 0)

fuzzy_match(city_names, variations, city_part, fuzzy_threshold) ==
    fuzzy_stages(extractOne(city_part, city_names),
                 extractOne(city_part, DictKeys(variations)),
                 variations, fuzzy_threshold)

\* LocationMatcher.match_location_to_city.  For a list cell pd.isna gives an
\* array, whose truth value `or` cannot take: ValueError
match_city_part(city_names, variations, city_part, fuzzy_threshold) ==
    IF DictHas(variations, city_part)
    THEN Returned(Str(DictGet(variations, city_part)), 100)
    ELSE fuzzy_match(city_names, variations, city_part, fuzzy_threshold)

match_location_to_city(city_names, variations, location, fuzzy_threshold) ==
    IF location.k = "list" THEN Raised("ValueError")
    ELSE IF isna(location) \/ location.s = <<>> THEN Returned(None, 0)
    ELSE match_city_part(city_names, variations,
                         _extract_city_from_location(location), fuzzy_threshold)

-----------------------------------------------------------------------------
(* tables: a DataFrame is its index labels and, per column, its cells *)

Num(n) == [k |-> "num", s |-> <<n>>]

NoTable == [index |-> <<>>, data |-> <<>>]
Rows(df) == 1..Len(df.index)
Columns(df) == DOMAIN df.data

\* df[col] = cells
set_column(df, col, cells) == [df EXCEPT !.data = (col :> cells) @@ @]

\* df.loc[idx, col] = value: every row labelled idx is assigned
loc_set(df, idx, col, value) ==
    [df EXCEPT !.data[col] =
        [q \in Rows(df) |-> IF df.index[q] = idx THEN value ELSE @[q]]]

\* a batch call's outcome: the exception raised ("none": it returned), the
\* table returned, the caller's table after the call, and the number of rows
\* resolved before the call ended
Outcome(exc, ret, arg, processed) ==
    [exc |-> exc, ret |-> ret, arg |-> arg, processed |-> processed]

\* the loop of LocationMatcher.match_locations from row p on
RECURSIVE match_locations_rows(_, _, _, _, _, _)
\* the row at p resolved to m: the two assignments, and the rows after it
match_locations_row(city_names, variations, job, result, p, fuzzy_threshold, m) ==
    IF m.exc # "none" THEN Outcome(m.exc, NoTable, job, p - 1)
    ELSE match_locations_rows(city_names, variations, job,
             loc_set(loc_set(result, result.index[p], "matched_city", m.city),
                     result.index[p], "match_confidence", Num(m.conf)),
             p + 1, fuzzy_threshold)

match_locations_rows(city_names, variations, job, result, p, fuzzy_threshold) ==
    IF p > Len(result.index) THEN Outcome("none", result, job, p - 1)
    ELSE IF "location" \notin Columns(result)
    THEN Outcome("KeyError", NoTable, job, p - 1)
    ELSE match_locations_row(city_names, variations, job, result, p,
             fuzzy_threshold,
             match_location_to_city(city_names, variations,
                                    result.data["location"][p], fuzzy_threshold))

\* LocationMatcher.match_locations
match_locations(city_names, variations, job, fuzzy_threshold) ==
    match_locations_rows(city_names, variations, job,
        set_column(set_column(job, "matched_city", [q \in Rows(job) |-> None]),
                   "match_confidence", [q \in Rows(job) |-> Num(0)]),
        1, fuzzy_threshold)

\* Series.value_counts(): the non-null values with the number of rows that
\* hold them, the greatest number first, values of one number in the order
\* in which they first appear
value_counts(cells, rows) ==
    LET live == {q \in rows : ~isna(cells[q])}
        first == {q \in live : \A r \in live : cells[r] = cells[q] => q <= r}
        n == Cardinality(first)
        key == list_of([i \in 1..n |-> cells[Nth(first, i)]], n)
        count == list_of([i \in 1..n |->
                             Cardinality({r \in live : cells[r] = key[i]})], n)
        rank(i) == 1 + Cardinality({j \in 1..n :
                                      \/ count[j] > count[i]
                                      \/ count[j] = count[i] /\ j < i})
        at(r) == CHOOSE i \in 1..n : rank(i) = r
    IN  list_of([r \in 1..n |-> <<key[at(r)], count[at(r)]>>], n)

\* Series.head(n)
head(items, n) == SubSeq(items, 1, Min({n, Len(items)}))

\* round(x, 2) of get_matching_stats, in hundredths, for num >= 0, den > 0:
\*   factor = 100: round(match_rate, 2) of the float match_rate =
\*                 num / den * 100 (lines 198, 210);
\*   factor = 1:   round(avg_confidence, 2) of the numpy.float64 num / den
\*                 that Series.mean() returns (lines 206, 211), which numpy
\*                 rounds as rint(avg_confidence * 100) / 100.
\* Both go by the float y = fl(fl(num / den) * 100).  y is within 2^-45 of
\* 100 * num / den, so the result is the hundredth nearest to the exact
\* number factor * num / den unless that number lies halfway between two
\* hundredths (den below 2^24, factor * 100 * num below 2^27).  Halfway, the
\* side y lies on decides, and round() and rint() take the even hundredth
\* when y is the half itself.  The side is computed on the binary expansion
\* of num / den: with A / B = num / den * 2^k in [1, 2), long division by
\* four bits at a time gives the last 8 bits m of the 53-bit significand and
\* the remainder r; the division rounds to even (by d1 / B units of the last
\* place), the product 100 * significand has 59 or 60 bits (60 when
\* A / B >= 1.28) and rounds to 53 (by d2 units)
round_2(num, den, factor) ==
    LET Q == factor * 100 * num
        q == Q \div den
        RECURSIVE scaled_den(_)
        scaled_den(b) == IF num >= 2 * b THEN scaled_den(2 * b) ELSE b
        RECURSIVE scaled_num(_)
        scaled_num(a) == IF a < den THEN scaled_num(2 * a) ELSE a
        B == scaled_den(den)
        A == scaled_num(num)
        RECURSIVE significand(_, _, _)
        significand(rest, bits, i) ==
            IF i = 52 THEN <<rest, bits>>
            ELSE significand((16 * rest) % B,
                             (16 * bits + (16 * rest) \div B) % 256, i + 4)
        division == significand(A - B, 1, 0)
        r == division[1]
        up1 == 2 * r > B \/ (2 * r = B /\ division[2] % 2 = 1)
        d1 == IF up1 THEN B - r ELSE 0 - r
        m == IF up1 THEN (division[2] + 1) % 256 ELSE division[2]
        k == IF 25 * A >= 32 * B THEN 128 ELSE 64
        low == (100 * m) % k
        up2 == 2 * low > k \/ (2 * low = k /\ (100 * m) % (2 * k) >= k)
        d2 == IF up2 THEN k - low ELSE 0 - low
        float_error == d2 * B + 100 * d1
    IN  IF 2 * (Q % den) > den THEN q + 1
        ELSE IF 2 * (Q % den) < den THEN q
        ELSE IF float_error > 0 THEN q + 1
        ELSE IF float_error < 0 THEN q
        ELSE IF q % 2 = 0 THEN q ELSE q + 1

RECURSIVE SumCells(_, _)
SumCells(cells, rows) ==
    IF rows = {} THEN 0
    ELSE LET q == CHOOSE r \in rows : TRUE
         IN  cells[q].s[1] + SumCells(cells, rows \ {q})

\* what get_matching_stats ends with: the dict returned, or the exception
Stats(total, matched, rate, average, top) ==
    [exc |-> "none", total_jobs |-> total, matched_jobs |-> matched,
     unmatched_jobs |-> total - matched, match_rate |-> rate,
     average_confidence |-> average, top_unmatched_locations |-> top]
StatsFailed(exc) ==
    [exc |-> exc, total_jobs |-> 0, matched_jobs |-> 0, unmatched_jobs |-> 0,
     match_rate |-> 0, average_confidence |-> 0,
     top_unmatched_locations |-> <<>>]
NoStats == StatsFailed("not called")

\* matched_data[matched_data['matched_city'].notna()]
matched_rows(matched_data) ==
    {q \in 1..Len(matched_data.index) :
        ~isna(matched_data.data["matched_city"][q])}

\* LocationMatcher.get_matching_stats; match_rate and average_confidence are
\* held in hundredths
get_matching_stats(matched_data) ==
    IF \E c \in {"matched_city", "location", "match_confidence"} :
          c \notin DOMAIN matched_data.data
    THEN StatsFailed("KeyError")
    ELSE LET total_jobs == Len(matched_data.index)
             matched == matched_rows(matched_data)
             matched_jobs == Cardinality(matched)
         IN  Stats(total_jobs, matched_jobs,
                   IF total_jobs > 0
                   THEN round_2(matched_jobs, total_jobs, 100) ELSE 0,
                   IF matched_jobs > 0
                   THEN round_2(SumCells(matched_data.data["match_confidence"],
                                         matched),
                                matched_jobs, 1)
                   ELSE 0,
                   head(value_counts(matched_data.data["location"],
                                     (1..total_jobs) \ matched), 5))

-----------------------------------------------------------------------------
(* app.py *)

\* CITY_TO_COUNTY
CITY_TO_COUNTY ==
    <<
       <<<<100, 101, 110, 118, 101, 114>>,
         <<68, 101, 110, 118, 101, 114>>>>, \* denver: Denver
       <<<<97, 117, 114, 111, 114, 97>>,
         <<65, 114, 97, 112, 97, 104, 111, 101>>>>, \* aurora: Arapahoe
       <<<<99, 111, 108, 111, 114, 97, 100, 111, 32, 115, 112, 114, 105, 110, 103, 115>>,
         <<69, 108, 32, 80, 97, 115, 111>>>>, \* colorado springs: El Paso
       <<<<102, 111, 114, 116, 32, 99, 111, 108, 108, 105, 110, 115>>,
         <<76, 97, 114, 105, 109, 101, 114>>>>, \* fort collins: Larimer
       <<<<108, 97, 107, 101, 119, 111, 111, 100>>,
         <<74, 101, 102, 102, 101, 114, 115, 111, 110>>>>, \* lakewood: Jefferson
       <<<<116, 104, 111, 114, 110, 116, 111, 110>>,
         <<65, 100, 97, 109, 115>>>>, \* thornton: Adams
       <<<<97, 114, 118, 97, 100, 97>>,
         <<74, 101, 102, 102, 101, 114, 115, 111, 110>>>>, \* arvada: Jefferson
       <<<<119, 101, 115, 116, 109, 105, 110, 115, 116, 101, 114>>,
         <<65, 100, 97, 109, 115>>>>, \* westminster: Adams
       <<<<103, 114, 101, 101, 108, 101, 121>>,
         <<87, 101, 108, 100>>>>, \* greeley: Weld
       <<<<112, 117, 101, 98, 108, 111>>,
         <<80, 117, 101, 98, 108, 111>>>>, \* pueblo: Pueblo
       <<<<99, 101, 110, 116, 101, 110, 110, 105, 97, 108>>,
         <<65, 114, 97, 112, 97, 104, 111, 101>>>>, \* centennial: Arapahoe
       <<<<98, 111, 117, 108, 100, 101, 114>>,
         <<66, 111, 117, 108, 100, 101, 114>>>>, \* boulder: Boulder
       <<<<108, 111, 110, 103, 109, 111, 110, 116>>,
         <<66, 111, 117, 108, 100, 101, 114>>>>, \* longmont: Boulder
       <<<<99, 97, 115, 116, 108, 101, 32, 114, 111, 99, 107>>,
         <<68, 111, 117, 103, 108, 97, 115>>>>, \* castle rock: Douglas
       <<<<108, 111, 118, 101, 108, 97, 110, 100>>,
         <<76, 97, 114, 105, 109, 101, 114>>>>, \* loveland: Larimer
       <<<<98, 114, 111, 111, 109, 102, 105, 101, 108, 100>>,
         <<66, 114, 111, 111, 109, 102, 105, 101, 108, 100>>>>, \* broomfield: Broomfield
       <<<<103, 114, 97, 110, 100, 32, 106, 117, 110, 99, 116, 105, 111, 110>>,
         <<77, 101, 115, 97>>>>, \* grand junction: Mesa
       <<<<99, 111, 109, 109, 101, 114, 99, 101, 32, 99, 105, 116, 121>>,
         <<65, 100, 97, 109, 115>>>>, \* commerce city: Adams
       <<<<112, 97, 114, 107, 101, 114>>,
         <<68, 111, 117, 103, 108, 97, 115>>>>, \* parker: Douglas
       <<<<108, 105, 116, 116, 108, 101, 116, 111, 110>>,
         <<65, 114, 97, 112, 97, 104, 111, 101>>>>, \* littleton: Arapahoe
       <<<<110, 111, 114, 116, 104, 103, 108, 101, 110, 110>>,
         <<65, 100, 97, 109, 115>>>>, \* northglenn: Adams
       <<<<98, 114, 105, 103, 104, 116, 111, 110>>,
         <<65, 100, 97, 109, 115>>>>, \* brighton: Adams
       <<<<119, 104, 101, 97, 116, 32, 114, 105, 100, 103, 101>>,
         <<74, 101, 102, 102, 101, 114, 115, 111, 110>>>>, \* wheat ridge: Jefferson
       <<<<102, 111, 117, 110, 116, 97, 105, 110>>,
         <<69, 108, 32, 80, 97, 115, 111>>>>, \* fountain: El Paso
       <<<<108, 97, 102, 97, 121, 101, 116, 116, 101>>,
         <<66, 111, 117, 108, 100, 101, 114>>>>, \* lafayette: Boulder
       <<<<101, 114, 105, 101>>,
         <<66, 111, 117, 108, 100, 101, 114>>>>, \* erie: Boulder
       <<<<101, 110, 103, 108, 101, 119, 111, 111, 100>>,
         <<65, 114, 97, 112, 97, 104, 111, 101>>>>, \* englewood: Arapahoe
       <<<<101, 118, 97, 110, 115>>,
         <<87, 101, 108, 100>>>>, \* evans: Weld
       <<<<103, 111, 108, 100, 101, 110>>,
         <<74, 101, 102, 102, 101, 114, 115, 111, 110>>>>, \* golden: Jefferson
       <<<<109, 111, 110, 116, 114, 111, 115, 101>>,
         <<77, 111, 110, 116, 114, 111, 115, 101>>>>, \* montrose: Montrose
       <<<<97, 115, 112, 101, 110>>,
         <<80, 105, 116, 107, 105, 110>>>>, \* aspen: Pitkin
       <<<<118, 97, 105, 108>>,
         <<69, 97, 103, 108, 101>>>>, \* vail: Eagle
       <<<<115, 116, 101, 97, 109, 98, 111, 97, 116, 32, 115, 112, 114, 105, 110, 103, 115>>,
         <<82, 111, 117, 116, 116>>>>, \* steamboat springs: Routt
       <<<<100, 117, 114, 97, 110, 103, 111>>,
         <<76, 97, 32, 80, 108, 97, 116, 97>>>>, \* durango: La Plata
       <<<<103, 108, 101, 110, 119, 111, 111, 100, 32, 115, 112, 114, 105, 110, 103, 115>>,
         <<71, 97, 114, 102, 105, 101, 108, 100>>>>, \* glenwood springs: Garfield
       <<<<116, 101, 108, 108, 117, 114, 105, 100, 101>>,
         <<83, 97, 110, 32, 77, 105, 103, 117, 101, 108>>>>, \* telluride: San Miguel
       <<<<98, 114, 101, 99, 107, 101, 110, 114, 105, 100, 103, 101>>,
         <<83, 117, 109, 109, 105, 116>>>>, \* breckenridge: Summit
       <<<<99, 114, 101, 115, 116, 101, 100, 32, 98, 117, 116, 116, 101>>,
         <<71, 117, 110, 110, 105, 115, 111, 110>>>>>> \* crested butte: Gunnison

\* DEFAULT_CITIES; a coordinate is held in hundredths of a degree
DEFAULT_CITIES ==
    [City |-> <<<<68, 101, 110, 118, 101, 114>>,
               <<67, 111, 108, 111, 114, 97, 100, 111, 32, 83, 112, 114, 105, 110, 103, 115>>,
               <<65, 117, 114, 111, 114, 97>>,
               <<70, 111, 114, 116, 32, 67, 111, 108, 108, 105, 110, 115>>,
               <<76, 97, 107, 101, 119, 111, 111, 100>>,
               <<66, 111, 117, 108, 100, 101, 114>>>>,
     Latitude |-> <<3974, 3883, 3973, 4059, 3971, 4002>>,
     Longitude |-> <<-10499, -10482, -10483, -10508, -10508, -10527>>]

\* str(value) that loses the last character of a str: value[:-1]
str_truncated(v) ==
    IF v.k = "str" THEN SubSeq(v.s, 1, Len(v.s) - 1)
    ELSE IF v.k = "nan" THEN <<110, 97, 110>>
    ELSE IF v.k = "None" THEN <<78, 111, 110, 101>>
    ELSE IF v.k = "list" THEN <<91, 39, 97, 39, 44, 32, 39, 98, 39, 93>>
    ELSE <<>>

\* str(value) of Series.astype(str)
astype_str(v) ==
    IF v.k = "str" THEN v.s
    ELSE IF v.k = "nan" THEN <<110, 97, 110>>                     \* "nan"
    ELSE IF v.k = "None" THEN <<78, 111, 110, 101>>                \* "None"
    ELSE IF v.k = "list" THEN <<91, 39, 97, 39, 44, 32, 39, 98, 39, 93>> \* "['a', 'b']"
    ELSE <<>>

\* clean_location of app.py, for a str
clean_location(location) ==
    strip(SubSpaces(SubNonWord(lower(FirstPart(strip(location), {44})))))

\* match_location, once the city part is not a key of CITY_TO_COUNTY
accept_match(match, cat, fuzzy_threshold) ==
    IF match.found /\ match.score >= fuzzy_threshold
    THEN LET mask == {i \in 1..Len(cat.City) : lower(cat.City[i]) = match.choice}
         IN  IF mask # {} THEN Returned(Str(cat.City[Min(mask)]), match.score)
             ELSE Returned(None, 0)
    ELSE Returned(None, 0)

match_city_name(city_part, cat, fuzzy_threshold) ==
    IF DictHas(CITY_TO_COUNTY, city_part)
    THEN Returned(Str(title(city_part)), 100)
    ELSE accept_match(
             extractOne(city_part, [i \in 1..Len(cat.City) |-> lower(cat.City[i])]),
             cat, fuzzy_threshold)

\* match_location
match_location(location, cat, fuzzy_threshold) ==
    IF location = <<>> THEN Returned(None, 0)
    ELSE match_city_name(strip(FirstPart(clean_location(location), {44})),
                         cat, fuzzy_threshold)

\* city_lookup.get(city, {}).get(column); City is unique in a catalog
city_lookup(cat, column, city) ==
    LET at == {i \in 1..Len(cat.City) : city.k = "str" /\ cat.City[i] = city.s}
    IN  IF at = {} THEN None ELSE Num(cat[column][Max(at)])

\* county_of with the missing counties filled in: .fillna('Unknown')
county_of_filled(city) ==
    IF city.k = "str" /\ DictHas(CITY_TO_COUNTY, lower(city.s))
    THEN Str(title(DictGet(CITY_TO_COUNTY, lower(city.s))))
    ELSE Str(<<85, 110, 107, 110, 111, 119, 110>>)

\* matched_city.str.lower().map(CITY_TO_COUNTY).str.title()
county_of(city) ==
    IF city.k = "str" /\ DictHas(CITY_TO_COUNTY, lower(city.s))
    THEN Str(title(DictGet(CITY_TO_COUNTY, lower(city.s))))
    ELSE NaN

\* df['location'] = df['location'].astype(str)
with_location(df) ==
    set_column(df, "location",
        list_of([q \in Rows(df) |-> Str(astype_str(df.data["location"][q]))],
                 Len(df.index)))

\* df['cleaned_location'] = df['location'].apply(clean_location)
with_cleaned_location(df) ==
    set_column(df, "cleaned_location",
        list_of([q \in Rows(df) |->
                     Str(clean_location(df.data["location"][q].s))],
                 Len(df.index)))

\* matches = ...; df['matched_city'] = matches.apply(lambda x: x[0] if x else None)
with_matched_city(df, cat, fuzzy_threshold) ==
    set_column(df, "matched_city",
        list_of([q \in Rows(df) |->
                     match_location(df.data["cleaned_location"][q].s, cat,
                                    fuzzy_threshold).city],
                 Len(df.index)))

\* df['latitude'] = ...; df['longitude'] = ...: Series.apply makes a float
\* column of the values when one of them is a number, and None is NaN in it;
\* a column of None alone keeps None
with_coordinates(df, cat) ==
    LET looked_up(column) ==
            list_of([q \in Rows(df) |->
                         city_lookup(cat, column, df.data["matched_city"][q])],
                     Len(df.index))
        converted(cells) ==
            IF \E q \in 1..Len(cells) : cells[q].k = "num"
            THEN list_of([q \in 1..Len(cells) |->
                             IF cells[q].k = "None" THEN NaN ELSE cells[q]],
                         Len(cells))
            ELSE cells
    IN  set_column(
            set_column(df, "latitude", converted(looked_up("Latitude"))),
            "longitude", converted(looked_up("Longitude")))

\* df['county'] = ...
with_county(df) ==
    set_column(df, "county",
        list_of([q \in Rows(df) |-> county_of(df.data["matched_city"][q])],
                 Len(df.index)))

\* df['industry'] = ...
with_industry(df) ==
    set_column(df, "industry",
        IF "jobs[0].function" \in Columns(df)
        THEN list_of([q \in Rows(df) |->
                          Str(astype_str(df.data["jobs[0].function"][q]))],
                      Len(df.index))
        ELSE [q \in Rows(df) |-> None])

\* df, changed in place, is what the call returns
InPlace(df) == Outcome("none", df, df, Len(df.index))

\* process_job_data
process_job_data(df, cat, fuzzy_threshold) ==
    IF "location" \notin Columns(df) THEN Outcome("KeyError", NoTable, df, 0)
    ELSE InPlace(
            with_industry(with_county(with_coordinates(
                with_matched_city(with_cleaned_location(with_location(df)),
                                  cat, fuzzy_threshold),
                cat))))

\* the catalog file: "ok" (a csv file with the catalog as its content),
\* "missing", "unreadable" (no permission to read it), "empty" (no bytes) or
\* "malformed" (a line with more fields than the header)
File(state, content) == [state |-> state, content |-> content]

\* what a load ends with: the table returned, or the exception raised
Loaded(table) == [exc |-> "none", table |-> table]
LoadFailed(exc) == [exc |-> exc, table |-> [City |-> <<>>, Latitude |-> <<>>,
                                            Longitude |-> <<>>]]

\* pd.read_csv(path)
read_csv(file) ==
    IF file.state = "ok" THEN Loaded(file.content)
    ELSE IF file.state = "missing" THEN LoadFailed("FileNotFoundError")
    ELSE IF file.state = "unreadable" THEN LoadFailed("PermissionError")
    ELSE IF file.state = "empty" THEN LoadFailed("EmptyDataError")
    ELSE LoadFailed("ParserError")

\* load_cities
load_cities(file) ==
    IF read_csv(file).exc = "FileNotFoundError" THEN Loaded(DEFAULT_CITIES)
    ELSE read_csv(file)

-----------------------------------------------------------------------------
(* the by-city aggregates *)

\* data[data['matched_city'].notna()]
Matched(df) == {q \in Rows(df) : ~isna(df.data["matched_city"][q])}

\* rows.groupby(keys).size(): a row with a missing key is in no group
groupby_size(df, rows, keys) ==
    LET key(q) == [i \in 1..Len(keys) |-> df.data[keys[i]][q]]
        live == {q \in rows : \A i \in 1..Len(keys) : ~isna(key(q)[i])}
    IN  [g \in {key(q) : q \in live} |->
            Cardinality({q \in live : key(q) = g})]

RECURSIVE SumOver(_, _)
SumOver(f, S) ==
    IF S = {} THEN 0
    ELSE LET x == CHOOSE y \in S : TRUE IN f[x] + SumOver(f, S \ {x})

\* the job_count column summed
TotalCount(counts) == SumOver(counts, DOMAIN counts)

\* what an aggregating function ends with: the exception it raises, the
\* counts it computes, and the rows of them it gives to the figure it draws
Aggregate(by, exc, counts) ==
    [by |-> by, exc |-> exc, counts |-> counts, drawn |-> counts]
NoAgg == Aggregate("none", "none", <<>>)

grouped(by, df, keys) ==
    IF Matched(df) = {} THEN Aggregate(by, "none", <<>>)
    ELSE IF \E i \in 1..Len(keys) : keys[i] \notin Columns(df)
    THEN Aggregate(by, "KeyError", <<>>)
    ELSE Aggregate(by, "none", groupby_size(df, Matched(df), keys))

\* city_counts of create_city_map (app.py)
create_city_map(data) ==
    grouped("create_city_map", data, <<"matched_city", "latitude", "longitude">>)

\* city_job_counts of HeatmapGenerator.create_heatmap, as the figure gets it,
\* after city_job_counts.merge(cities_df[['City', 'Population']],
\* left_on='matched_city', right_on='City', how='left'): a row of the counts
\* for every catalog row that writes its city, with that row's Population,
\* and one row without a Population when no catalog row does. A merged row
\* is <<matched_city, latitude, longitude, catalog row, Population>>; its
\* jobs_per_capita is a float computed from job_count and Population, and
\* is not part of the row here
create_heatmap(cities_df, matched_data) ==
    LET city_job_counts ==
            grouped("create_heatmap", matched_data,
                    <<"matched_city", "latitude", "longitude">>)
        counts == city_job_counts.counts
        at(g) == {i \in 1..Len(cities_df.City) :
                     g[1].k = "str" /\ cities_df.City[i] = g[1].s}
        merged == {<<x[1][1], x[1][2], x[1][3], x[2],
                     Num(cities_df.Population[x[2]])>> :
                      x \in {y \in (DOMAIN counts) \X (1..Len(cities_df.City)) :
                                y[2] \in at(y[1])}}
                  \cup {<<g[1], g[2], g[3], 0, NaN>> :
                           g \in {x \in DOMAIN counts : at(x) = {}}}
    IN  IF Matched(matched_data) = {} \/ city_job_counts.exc # "none"
        THEN city_job_counts
        ELSE IF {"City", "Population"} \subseteq DOMAIN cities_df
        THEN Aggregate("create_heatmap", "none",
                       [r \in merged |-> counts[<<r[1], r[2], r[3]>>]])
        ELSE Aggregate("create_heatmap", "KeyError", <<>>)

\* counts of the matched locations in display_data_tables (app.py)
display_data_tables(data) ==
    grouped("display_data_tables", data, <<"matched_city">>)

-----------------------------------------------------------------------------
(* the by-county aggregates *)

\* load_county_geojson (app.py): the exception open() raises
load_county_geojson(geojson) ==
    IF geojson = "ok" THEN "none" ELSE "FileNotFoundError"

\* county_counts of create_county_map (app.py), as the figure gets it
create_county_map(data, geojson) ==
    IF "county" \notin Columns(data)
    THEN Aggregate("create_county_map", "KeyError", <<>>)
    ELSE LET matched == {q \in Rows(data) : ~isna(data.data["county"][q])}
         IN  IF matched = {} THEN Aggregate("create_county_map", "none", <<>>)
             ELSE IF load_county_geojson(geojson) # "none"
             THEN Aggregate("create_county_map", load_county_geojson(geojson), <<>>)
             ELSE Aggregate("create_county_map", "none",
                            groupby_size(data, matched, <<"county">>))

\* ColoradoCounties.city_to_county: a key written twice keeps its first place
\* and its last value
city_to_county ==
    <<
       <<<<100, 101, 110, 118, 101, 114>>,
         <<68, 101, 110, 118, 101, 114>>>>, \* denver: Denver
       <<<<97, 117, 114, 111, 114, 97>>,
         <<65, 114, 97, 112, 97, 104, 111, 101>>>>, \* aurora: Arapahoe
       <<<<108, 97, 107, 101, 119, 111, 111, 100>>,
         <<74, 101, 102, 102, 101, 114, 115, 111, 110>>>>, \* lakewood: Jefferson
       <<<<116, 104, 111, 114, 110, 116, 111, 110>>,
         <<65, 100, 97, 109, 115>>>>, \* thornton: Adams
       <<<<97, 114, 118, 97, 100, 97>>,
         <<74, 101, 102, 102, 101, 114, 115, 111, 110>>>>, \* arvada: Jefferson
       <<<<119, 101, 115, 116, 109, 105, 110, 115, 116, 101, 114>>,
         <<65, 100, 97, 109, 115>>>>, \* westminster: Adams
       <<<<99, 101, 110, 116, 101, 110, 110, 105, 97, 108>>,
         <<65, 114, 97, 112, 97, 104, 111, 101>>>>, \* centennial: Arapahoe
       <<<<98, 111, 117, 108, 100, 101, 114>>,
         <<66, 111, 117, 108, 100, 101, 114>>>>, \* boulder: Boulder
       <<<<98, 114, 111, 111, 109, 102, 105, 101, 108, 100>>,
         <<66, 114, 111, 111, 109, 102, 105, 101, 108, 100>>>>, \* broomfield: Broomfield
       <<<<99, 111, 109, 109, 101, 114, 99, 101, 32, 99, 105, 116, 121>>,
         <<65, 100, 97, 109, 115>>>>, \* commerce city: Adams
       <<<<110, 111, 114, 116, 104, 103, 108, 101, 110, 110>>,
         <<65, 100, 97, 109, 115>>>>, \* northglenn: Adams
       <<<<119, 104, 101, 97, 116, 32, 114, 105, 100, 103, 101>>,
         <<74, 101, 102, 102, 101, 114, 115, 111, 110>>>>, \* wheat ridge: Jefferson
       <<<<101, 110, 103, 108, 101, 119, 111, 111, 100>>,
         <<65, 114, 97, 112, 97, 104, 111, 101>>>>, \* englewood: Arapahoe
       <<<<108, 105, 116, 116, 108, 101, 116, 111, 110>>,
         <<65, 114, 97, 112, 97, 104, 111, 101>>>>, \* littleton: Arapahoe
       <<<<103, 111, 108, 100, 101, 110>>,
         <<74, 101, 102, 102, 101, 114, 115, 111, 110>>>>, \* golden: Jefferson
       <<<<108, 97, 102, 97, 121, 101, 116, 116, 101>>,
         <<66, 111, 117, 108, 100, 101, 114>>>>, \* lafayette: Boulder
       <<<<108, 111, 117, 105, 115, 118, 105, 108, 108, 101>>,
         <<66, 111, 117, 108, 100, 101, 114>>>>, \* louisville: Boulder
       <<<<115, 117, 112, 101, 114, 105, 111, 114>>,
         <<66, 111, 117, 108, 100, 101, 114>>>>, \* superior: Boulder
       <<<<101, 114, 105, 101>>,
         <<66, 111, 117, 108, 100, 101, 114>>>>, \* erie: Boulder
       <<<<108, 111, 110, 103, 109, 111, 110, 116>>,
         <<66, 111, 117, 108, 100, 101, 114>>>>, \* longmont: Boulder
       <<<<98, 114, 105, 103, 104, 116, 111, 110>>,
         <<65, 100, 97, 109, 115>>>>, \* brighton: Adams
       <<<<102, 101, 100, 101, 114, 97, 108, 32, 104, 101, 105, 103, 104, 116, 115>>,
         <<65, 100, 97, 109, 115>>>>, \* federal heights: Adams
       <<<<115, 104, 101, 114, 105, 100, 97, 110>>,
         <<65, 114, 97, 112, 97, 104, 111, 101>>>>, \* sheridan: Arapahoe
       <<<<101, 100, 103, 101, 119, 97, 116, 101, 114>>,
         <<74, 101, 102, 102, 101, 114, 115, 111, 110>>>>, \* edgewater: Jefferson
       <<<<109, 111, 117, 110, 116, 97, 105, 110, 32, 118, 105, 101, 119>>,
         <<74, 101, 102, 102, 101, 114, 115, 111, 110>>>>, \* mountain view: Jefferson
       <<<<103, 108, 101, 110, 100, 97, 108, 101>>,
         <<65, 114, 97, 112, 97, 104, 111, 101>>>>, \* glendale: Arapahoe
       <<<<99, 104, 101, 114, 114, 121, 32, 104, 105, 108, 108, 115, 32, 118, 105, 108, 108, 97, 103, 101>>,
         <<65, 114, 97, 112, 97, 104, 111, 101>>>>, \* cherry hills village: Arapahoe
       <<<<99, 111, 108, 117, 109, 98, 105, 110, 101, 32, 118, 97, 108, 108, 101, 121>>,
         <<65, 114, 97, 112, 97, 104, 111, 101>>>>, \* columbine valley: Arapahoe
       <<<<100, 101, 101, 114, 32, 116, 114, 97, 105, 108>>,
         <<65, 114, 97, 112, 97, 104, 111, 101>>>>, \* deer trail: Arapahoe
       <<<<98, 111, 119, 32, 109, 97, 114>>,
         <<74, 101, 102, 102, 101, 114, 115, 111, 110>>>>, \* bow mar: Jefferson
       <<<<109, 111, 114, 114, 105, 115, 111, 110>>,
         <<74, 101, 102, 102, 101, 114, 115, 111, 110>>>>, \* morrison: Jefferson
       <<<<108, 97, 107, 101, 115, 105, 100, 101>>,
         <<74, 101, 102, 102, 101, 114, 115, 111, 110>>>>, \* lakeside: Jefferson
       <<<<99, 111, 108, 111, 114, 97, 100, 111, 32, 115, 112, 114, 105, 110, 103, 115>>,
         <<69, 108, 32, 80, 97, 115, 111>>>>, \* colorado springs: El Paso
       <<<<102, 111, 117, 110, 116, 97, 105, 110>>,
         <<69, 108, 32, 80, 97, 115, 111>>>>, \* fountain: El Paso
       <<<<115, 101, 99, 117, 114, 105, 116, 121, 45, 119, 105, 100, 101, 102, 105, 101, 108, 100>>,
         <<69, 108, 32, 80, 97, 115, 111>>>>, \* security-widefield: El Paso
       <<<<99, 105, 109, 97, 114, 114, 111, 110, 32, 104, 105, 108, 108, 115>>,
         <<69, 108, 32, 80, 97, 115, 111>>>>, \* cimarron hills: El Paso
       <<<<109, 97, 110, 105, 116, 111, 117, 32, 115, 112, 114, 105, 110, 103, 115>>,
         <<69, 108, 32, 80, 97, 115, 111>>>>, \* manitou springs: El Paso
       <<<<98, 108, 97, 99, 107, 32, 102, 111, 114, 101, 115, 116>>,
         <<69, 108, 32, 80, 97, 115, 111>>>>, \* black forest: El Paso
       <<<<103, 108, 101, 110, 101, 97, 103, 108, 101>>,
         <<69, 108, 32, 80, 97, 115, 111>>>>, \* gleneagle: El Paso
       <<<<97, 105, 114, 32, 102, 111, 114, 99, 101, 32, 97, 99, 97, 100, 101, 109, 121>>,
         <<69, 108, 32, 80, 97, 115, 111>>>>, \* air force academy: El Paso
       <<<<109, 111, 110, 117, 109, 101, 110, 116>>,
         <<69, 108, 32, 80, 97, 115, 111>>>>, \* monument: El Paso
       <<<<112, 97, 108, 109, 101, 114, 32, 108, 97, 107, 101>>,
         <<69, 108, 32, 80, 97, 115, 111>>>>, \* palmer lake: El Paso
       <<<<103, 114, 101, 101, 110, 32, 109, 111, 117, 110, 116, 97, 105, 110, 32, 102, 97, 108, 108, 115>>,
         <<69, 108, 32, 80, 97, 115, 111>>>>, \* green mountain falls: El Paso
       <<<<99, 97, 115, 99, 97, 100, 101, 45, 99, 104, 105, 112, 105, 116, 97, 32, 112, 97, 114, 107>>,
         <<69, 108, 32, 80, 97, 115, 111>>>>, \* cascade-chipita park: El Paso
       <<<<102, 111, 114, 116, 32, 99, 111, 108, 108, 105, 110, 115>>,
         <<76, 97, 114, 105, 109, 101, 114>>>>, \* fort collins: Larimer
       <<<<108, 111, 118, 101, 108, 97, 110, 100>>,
         <<76, 97, 114, 105, 109, 101, 114>>>>, \* loveland: Larimer
       <<<<103, 114, 101, 101, 108, 101, 121>>,
         <<87, 101, 108, 100>>>>, \* greeley: Weld
       <<<<101, 118, 97, 110, 115>>,
         <<87, 101, 108, 100>>>>, \* evans: Weld
       <<<<119, 105, 110, 100, 115, 111, 114>>,
         <<87, 101, 108, 100>>>>, \* windsor: Weld
       <<<<106, 111, 104, 110, 115, 116, 111, 119, 110>>,
         <<87, 101, 108, 100>>>>, \* johnstown: Weld
       <<<<109, 105, 108, 108, 105, 107, 101, 110>>,
         <<87, 101, 108, 100>>>>, \* milliken: Weld
       <<<<98, 101, 114, 116, 104, 111, 117, 100>>,
         <<76, 97, 114, 105, 109, 101, 114>>>>, \* berthoud: Larimer
       <<<<119, 101, 108, 108, 105, 110, 103, 116, 111, 110>>,
         <<76, 97, 114, 105, 109, 101, 114>>>>, \* wellington: Larimer
       <<<<116, 105, 109, 110, 97, 116, 104>>,
         <<76, 97, 114, 105, 109, 101, 114>>>>, \* timnath: Larimer
       <<<<115, 101, 118, 101, 114, 97, 110, 99, 101>>,
         <<87, 101, 108, 100>>>>, \* severance: Weld
       <<<<101, 97, 116, 111, 110>>,
         <<87, 101, 108, 100>>>>, \* eaton: Weld
       <<<<97, 117, 108, 116>>,
         <<87, 101, 108, 100>>>>, \* ault: Weld
       <<<<112, 105, 101, 114, 99, 101>>,
         <<87, 101, 108, 100>>>>, \* pierce: Weld
       <<<<110, 117, 110, 110>>,
         <<87, 101, 108, 100>>>>, \* nunn: Weld
       <<<<107, 101, 114, 115, 101, 121>>,
         <<87, 101, 108, 100>>>>, \* kersey: Weld
       <<<<103, 97, 114, 100, 101, 110, 32, 99, 105, 116, 121>>,
         <<87, 101, 108, 100>>>>, \* garden city: Weld
       <<<<108, 97, 32, 115, 97, 108, 108, 101>>,
         <<87, 101, 108, 100>>>>, \* la salle: Weld
       <<<<103, 105, 108, 99, 114, 101, 115, 116>>,
         <<87, 101, 108, 100>>>>, \* gilcrest: Weld
       <<<<112, 108, 97, 116, 116, 101, 118, 105, 108, 108, 101>>,
         <<87, 101, 108, 100>>>>, \* platteville: Weld
       <<<<102, 114, 101, 100, 101, 114, 105, 99, 107>>,
         <<87, 101, 108, 100>>>>, \* frederick: Weld
       <<<<102, 105, 114, 101, 115, 116, 111, 110, 101>>,
         <<87, 101, 108, 100>>>>, \* firestone: Weld
       <<<<100, 97, 99, 111, 110, 111>>,
         <<87, 101, 108, 100>>>>, \* dacono: Weld
       <<<<109, 101, 97, 100>>,
         <<87, 101, 108, 100>>>>, \* mead: Weld
       <<<<108, 121, 111, 110, 115>>,
         <<66, 111, 117, 108, 100, 101, 114>>>>, \* lyons: Boulder
       <<<<110, 105, 119, 111, 116>>,
         <<66, 111, 117, 108, 100, 101, 114>>>>, \* niwot: Boulder
       <<<<119, 97, 114, 100>>,
         <<66, 111, 117, 108, 100, 101, 114>>>>, \* ward: Boulder
       <<<<106, 97, 109, 101, 115, 116, 111, 119, 110>>,
         <<66, 111, 117, 108, 100, 101, 114>>>>, \* jamestown: Boulder
       <<<<110, 101, 100, 101, 114, 108, 97, 110, 100>>,
         <<66, 111, 117, 108, 100, 101, 114>>>>, \* nederland: Boulder
       <<<<112, 117, 101, 98, 108, 111>>,
         <<80, 117, 101, 98, 108, 111>>>>, \* pueblo: Pueblo
       <<<<112, 117, 101, 98, 108, 111, 32, 119, 101, 115, 116>>,
         <<80, 117, 101, 98, 108, 111>>>>, \* pueblo west: Pueblo
       <<<<98, 111, 111, 110, 101>>,
         <<80, 117, 101, 98, 108, 111>>>>, \* boone: Pueblo
       <<<<115, 97, 108, 116, 32, 99, 114, 101, 101, 107>>,
         <<80, 117, 101, 98, 108, 111>>>>, \* salt creek: Pueblo
       <<<<98, 108, 101, 110, 100, 101>>,
         <<80, 117, 101, 98, 108, 111>>>>, \* blende: Pueblo
       <<<<97, 118, 111, 110, 100, 97, 108, 101>>,
         <<80, 117, 101, 98, 108, 111>>>>, \* avondale: Pueblo
       <<<<98, 101, 117, 108, 97, 104, 32, 118, 97, 108, 108, 101, 121>>,
         <<80, 117, 101, 98, 108, 111>>>>, \* beulah valley: Pueblo
       <<<<103, 114, 97, 110, 100, 32, 106, 117, 110, 99, 116, 105, 111, 110>>,
         <<77, 101, 115, 97>>>>, \* grand junction: Mesa
       <<<<102, 114, 117, 105, 116, 97>>,
         <<77, 101, 115, 97>>>>, \* fruita: Mesa
       <<<<112, 97, 108, 105, 115, 97, 100, 101>>,
         <<77, 101, 115, 97>>>>, \* palisade: Mesa
       <<<<99, 108, 105, 102, 116, 111, 110>>,
         <<77, 101, 115, 97>>>>, \* clifton: Mesa
       <<<<111, 114, 99, 104, 97, 114, 100, 32, 109, 101, 115, 97>>,
         <<77, 101, 115, 97>>>>, \* orchard mesa: Mesa
       <<<<114, 101, 100, 108, 97, 110, 100, 115>>,
         <<77, 101, 115, 97>>>>, \* redlands: Mesa
       <<<<102, 114, 117, 105, 116, 118, 97, 108, 101>>,
         <<77, 101, 115, 97>>>>, \* fruitvale: Mesa
       <<<<108, 111, 109, 97>>,
         <<77, 101, 115, 97>>>>, \* loma: Mesa
       <<<<109, 97, 99, 107>>,
         <<77, 101, 115, 97>>>>, \* mack: Mesa
       <<<<99, 111, 108, 108, 98, 114, 97, 110>>,
         <<77, 101, 115, 97>>>>, \* collbran: Mesa
       <<<<100, 101, 32, 98, 101, 113, 117, 101>>,
         <<77, 101, 115, 97>>>>, \* de beque: Mesa
       <<<<97, 115, 112, 101, 110>>,
         <<80, 105, 116, 107, 105, 110>>>>, \* aspen: Pitkin
       <<<<115, 110, 111, 119, 109, 97, 115, 115, 32, 118, 105, 108, 108, 97, 103, 101>>,
         <<80, 105, 116, 107, 105, 110>>>>, \* snowmass village: Pitkin
       <<<<98, 97, 115, 97, 108, 116>>,
         <<69, 97, 103, 108, 101>>>>, \* basalt: Eagle
       <<<<99, 97, 114, 98, 111, 110, 100, 97, 108, 101>>,
         <<71, 97, 114, 102, 105, 101, 108, 100>>>>, \* carbondale: Garfield
       <<<<103, 108, 101, 110, 119, 111, 111, 100, 32, 115, 112, 114, 105, 110, 103, 115>>,
         <<71, 97, 114, 102, 105, 101, 108, 100>>>>, \* glenwood springs: Garfield
       <<<<114, 105, 102, 108, 101>>,
         <<71, 97, 114, 102, 105, 101, 108, 100>>>>, \* rifle: Garfield
       <<<<115, 105, 108, 116>>,
         <<71, 97, 114, 102, 105, 101, 108, 100>>>>, \* silt: Garfield
       <<<<110, 101, 119, 32, 99, 97, 115, 116, 108, 101>>,
         <<71, 97, 114, 102, 105, 101, 108, 100>>>>, \* new castle: Garfield
       <<<<112, 97, 114, 97, 99, 104, 117, 116, 101>>,
         <<71, 97, 114, 102, 105, 101, 108, 100>>>>, \* parachute: Garfield
       <<<<98, 97, 116, 116, 108, 101, 109, 101, 110, 116, 32, 109, 101, 115, 97>>,
         <<71, 97, 114, 102, 105, 101, 108, 100>>>>, \* battlement mesa: Garfield
       <<<<118, 97, 105, 108>>,
         <<69, 97, 103, 108, 101>>>>, \* vail: Eagle
       <<<<97, 118, 111, 110>>,
         <<69, 97, 103, 108, 101>>>>, \* avon: Eagle
       <<<<98, 101, 97, 118, 101, 114, 32, 99, 114, 101, 101, 107>>,
         <<69, 97, 103, 108, 101>>>>, \* beaver creek: Eagle
       <<<<101, 97, 103, 108, 101>>,
         <<69, 97, 103, 108, 101>>>>, \* eagle: Eagle
       <<<<103, 121, 112, 115, 117, 109>>,
         <<69, 97, 103, 108, 101>>>>, \* gypsum: Eagle
       <<<<109, 105, 110, 116, 117, 114, 110>>,
         <<69, 97, 103, 108, 101>>>>, \* minturn: Eagle
       <<<<101, 100, 119, 97, 114, 100, 115>>,
         <<69, 97, 103, 108, 101>>>>, \* edwards: Eagle
       <<<<101, 97, 103, 108, 101, 45, 118, 97, 105, 108>>,
         <<69, 97, 103, 108, 101>>>>, \* eagle-vail: Eagle
       <<<<98, 114, 101, 99, 107, 101, 110, 114, 105, 100, 103, 101>>,
         <<83, 117, 109, 109, 105, 116>>>>, \* breckenridge: Summit
       <<<<102, 114, 105, 115, 99, 111>>,
         <<83, 117, 109, 109, 105, 116>>>>, \* frisco: Summit
       <<<<107, 101, 121, 115, 116, 111, 110, 101>>,
         <<83, 117, 109, 109, 105, 116>>>>, \* keystone: Summit
       <<<<115, 105, 108, 118, 101, 114, 116, 104, 111, 114, 110, 101>>,
         <<83, 117, 109, 109, 105, 116>>>>, \* silverthorne: Summit
       <<<<100, 105, 108, 108, 111, 110>>,
         <<83, 117, 109, 109, 105, 116>>>>, \* dillon: Summit
       <<<<99, 111, 112, 112, 101, 114, 32, 109, 111, 117, 110, 116, 97, 105, 110>>,
         <<83, 117, 109, 109, 105, 116>>>>, \* copper mountain: Summit
       <<<<98, 108, 117, 101, 32, 114, 105, 118, 101, 114>>,
         <<83, 117, 109, 109, 105, 116>>>>, \* blue river: Summit
       <<<<109, 111, 110, 116, 101, 122, 117, 109, 97>>,
         <<83, 117, 109, 109, 105, 116>>>>, \* montezuma: Summit
       <<<<115, 116, 101, 97, 109, 98, 111, 97, 116, 32, 115, 112, 114, 105, 110, 103, 115>>,
         <<82, 111, 117, 116, 116>>>>, \* steamboat springs: Routt
       <<<<104, 97, 121, 100, 101, 110>>,
         <<82, 111, 117, 116, 116>>>>, \* hayden: Routt
       <<<<111, 97, 107, 32, 99, 114, 101, 101, 107>>,
         <<82, 111, 117, 116, 116>>>>, \* oak creek: Routt
       <<<<121, 97, 109, 112, 97>>,
         <<82, 111, 117, 116, 116>>>>, \* yampa: Routt
       <<<<112, 104, 105, 112, 112, 115, 98, 117, 114, 103>>,
         <<82, 111, 117, 116, 116>>>>, \* phippsburg: Routt
       <<<<116, 101, 108, 108, 117, 114, 105, 100, 101>>,
         <<83, 97, 110, 32, 77, 105, 103, 117, 101, 108>>>>, \* telluride: San Miguel
       <<<<109, 111, 117, 110, 116, 97, 105, 110, 32, 118, 105, 108, 108, 97, 103, 101>>,
         <<83, 97, 110, 32, 77, 105, 103, 117, 101, 108>>>>, \* mountain village: San Miguel
       <<<<111, 112, 104, 105, 114>>,
         <<83, 97, 110, 32, 77, 105, 103, 117, 101, 108>>>>, \* ophir: San Miguel
       <<<<110, 111, 114, 119, 111, 111, 100>>,
         <<83, 97, 110, 32, 77, 105, 103, 117, 101, 108>>>>, \* norwood: San Miguel
       <<<<99, 114, 101, 115, 116, 101, 100, 32, 98, 117, 116, 116, 101>>,
         <<71, 117, 110, 110, 105, 115, 111, 110>>>>, \* crested butte: Gunnison
       <<<<109, 111, 117, 110, 116, 32, 99, 114, 101, 115, 116, 101, 100, 32, 98, 117, 116, 116, 101>>,
         <<71, 117, 110, 110, 105, 115, 111, 110>>>>, \* mount crested butte: Gunnison
       <<<<103, 117, 110, 110, 105, 115, 111, 110>>,
         <<71, 117, 110, 110, 105, 115, 111, 110>>>>, \* gunnison: Gunnison
       <<<<109, 97, 114, 98, 108, 101>>,
         <<71, 117, 110, 110, 105, 115, 111, 110>>>>, \* marble: Gunnison
       <<<<97, 108, 109, 111, 110, 116>>,
         <<71, 117, 110, 110, 105, 115, 111, 110>>>>, \* almont: Gunnison
       <<<<112, 105, 116, 107, 105, 110>>,
         <<71, 117, 110, 110, 105, 115, 111, 110>>>>, \* pitkin: Gunnison
       <<<<111, 117, 114, 97, 121>>,
         <<79, 117, 114, 97, 121>>>>, \* ouray: Ouray
       <<<<114, 105, 100, 103, 119, 97, 121>>,
         <<79, 117, 114, 97, 121>>>>, \* ridgway: Ouray
       <<<<115, 105, 108, 118, 101, 114, 116, 111, 110>>,
         <<83, 97, 110, 32, 74, 117, 97, 110>>>>, \* silverton: San Juan
       <<<<100, 117, 114, 97, 110, 103, 111>>,
         <<76, 97, 32, 80, 108, 97, 116, 97>>>>, \* durango: La Plata
       <<<<98, 97, 121, 102, 105, 101, 108, 100>>,
         <<76, 97, 32, 80, 108, 97, 116, 97>>>>, \* bayfield: La Plata
       <<<<105, 103, 110, 97, 99, 105, 111>>,
         <<76, 97, 32, 80, 108, 97, 116, 97>>>>, \* ignacio: La Plata
       <<<<112, 97, 103, 111, 115, 97, 32, 115, 112, 114, 105, 110, 103, 115>>,
         <<65, 114, 99, 104, 117, 108, 101, 116, 97>>>>, \* pagosa springs: Archuleta
       <<<<99, 111, 114, 116, 101, 122>>,
         <<77, 111, 110, 116, 101, 122, 117, 109, 97>>>>, \* cortez: Montezuma
       <<<<109, 97, 110, 99, 111, 115>>,
         <<77, 111, 110, 116, 101, 122, 117, 109, 97>>>>, \* mancos: Montezuma
       <<<<100, 111, 108, 111, 114, 101, 115>>,
         <<77, 111, 110, 116, 101, 122, 117, 109, 97>>>>, \* dolores: Montezuma
       <<<<100, 111, 118, 101, 32, 99, 114, 101, 101, 107>>,
         <<68, 111, 108, 111, 114, 101, 115>>>>, \* dove creek: Dolores
       <<<<114, 105, 99, 111>>,
         <<68, 111, 108, 111, 114, 101, 115>>>>, \* rico: Dolores
       <<<<115, 116, 101, 114, 108, 105, 110, 103>>,
         <<76, 111, 103, 97, 110>>>>, \* sterling: Logan
       <<<<102, 111, 114, 116, 32, 109, 111, 114, 103, 97, 110>>,
         <<77, 111, 114, 103, 97, 110>>>>, \* fort morgan: Morgan
       <<<<98, 114, 117, 115, 104>>,
         <<77, 111, 114, 103, 97, 110>>>>, \* brush: Morgan
       <<<<108, 111, 103, 32, 108, 97, 110, 101, 32, 118, 105, 108, 108, 97, 103, 101>>,
         <<77, 111, 114, 103, 97, 110>>>>, \* log lane village: Morgan
       <<<<104, 105, 108, 108, 114, 111, 115, 101>>,
         <<77, 111, 114, 103, 97, 110>>>>, \* hillrose: Morgan
       <<<<119, 105, 103, 103, 105, 110, 115>>,
         <<77, 111, 114, 103, 97, 110>>>>, \* wiggins: Morgan
       <<<<119, 101, 108, 100, 111, 110, 97>>,
         <<77, 111, 114, 103, 97, 110>>>>, \* weldona: Morgan
       <<<<121, 117, 109, 97>>,
         <<89, 117, 109, 97>>>>, \* yuma: Yuma
       <<<<119, 114, 97, 121>>,
         <<89, 117, 109, 97>>>>, \* wray: Yuma
       <<<<101, 99, 107, 108, 101, 121>>,
         <<89, 117, 109, 97>>>>, \* eckley: Yuma
       <<<<118, 101, 114, 110, 111, 110>>,
         <<89, 117, 109, 97>>>>, \* vernon: Yuma
       <<<<104, 111, 108, 121, 111, 107, 101>>,
         <<80, 104, 105, 108, 108, 105, 112, 115>>>>, \* holyoke: Phillips
       <<<<104, 97, 120, 116, 117, 110>>,
         <<80, 104, 105, 108, 108, 105, 112, 115>>>>, \* haxtun: Phillips
       <<<<112, 97, 111, 108, 105>>,
         <<80, 104, 105, 108, 108, 105, 112, 115>>>>, \* paoli: Phillips
       <<<<106, 117, 108, 101, 115, 98, 117, 114, 103>>,
         <<83, 101, 100, 103, 119, 105, 99, 107>>>>, \* julesburg: Sedgwick
       <<<<111, 118, 105, 100>>,
         <<83, 101, 100, 103, 119, 105, 99, 107>>>>, \* ovid: Sedgwick
       <<<<99, 104, 97, 112, 112, 101, 108, 108>>,
         <<68, 101, 117, 101, 108>>>>, \* chappell: Deuel
       <<<<97, 107, 114, 111, 110>>,
         <<87, 97, 115, 104, 105, 110, 103, 116, 111, 110>>>>, \* akron: Washington
       <<<<111, 116, 105, 115>>,
         <<87, 97, 115, 104, 105, 110, 103, 116, 111, 110>>>>, \* otis: Washington
       <<<<99, 111, 112, 101>>,
         <<87, 97, 115, 104, 105, 110, 103, 116, 111, 110>>>>, \* cope: Washington
       <<<<97, 110, 116, 111, 110>>,
         <<87, 97, 115, 104, 105, 110, 103, 116, 111, 110>>>>, \* anton: Washington
       <<<<119, 111, 111, 100, 114, 111, 119>>,
         <<87, 97, 115, 104, 105, 110, 103, 116, 111, 110>>>>, \* woodrow: Washington
       <<<<108, 97, 115, 116, 32, 99, 104, 97, 110, 99, 101>>,
         <<87, 97, 115, 104, 105, 110, 103, 116, 111, 110>>>>, \* last chance: Washington
       <<<<108, 105, 110, 100, 111, 110>>,
         <<87, 97, 115, 104, 105, 110, 103, 116, 111, 110>>>>, \* lindon: Washington
       <<<<102, 108, 101, 109, 105, 110, 103>>,
         <<76, 111, 103, 97, 110>>>>, \* fleming: Logan
       <<<<112, 101, 101, 116, 122>>,
         <<76, 111, 103, 97, 110>>>>, \* peetz: Logan
       <<<<99, 114, 111, 111, 107>>,
         <<76, 111, 103, 97, 110>>>>, \* crook: Logan
       <<<<105, 108, 105, 102, 102>>,
         <<76, 111, 103, 97, 110>>>>, \* iliff: Logan
       <<<<109, 101, 114, 105, 110, 111>>,
         <<76, 111, 103, 97, 110>>>>, \* merino: Logan
       <<<<97, 116, 119, 111, 111, 100>>,
         <<76, 111, 103, 97, 110>>>>, \* atwood: Logan
       <<<<112, 114, 111, 99, 116, 111, 114>>,
         <<76, 111, 103, 97, 110>>>>, \* proctor: Logan
       <<<<115, 101, 100, 103, 119, 105, 99, 107>>,
         <<83, 101, 100, 103, 119, 105, 99, 107>>>>, \* sedgwick: Sedgwick
       <<<<98, 105, 103, 32, 115, 112, 114, 105, 110, 103, 115>>,
         <<68, 101, 117, 101, 108>>>>, \* big springs: Deuel
       <<<<99, 97, 110, 111, 110, 32, 99, 105, 116, 121>>,
         <<70, 114, 101, 109, 111, 110, 116>>>>, \* canon city: Fremont
       <<<<102, 108, 111, 114, 101, 110, 99, 101>>,
         <<70, 114, 101, 109, 111, 110, 116>>>>, \* florence: Fremont
       <<<<112, 101, 110, 114, 111, 115, 101>>,
         <<70, 114, 101, 109, 111, 110, 116>>>>, \* penrose: Fremont
       <<<<114, 111, 99, 107, 118, 97, 108, 101>>,
         <<70, 114, 101, 109, 111, 110, 116>>>>, \* rockvale: Fremont
       <<<<99, 111, 97, 108, 32, 99, 114, 101, 101, 107>>,
         <<70, 114, 101, 109, 111, 110, 116>>>>, \* coal creek: Fremont
       <<<<98, 114, 111, 111, 107, 115, 105, 100, 101>>,
         <<70, 114, 101, 109, 111, 110, 116>>>>, \* brookside: Fremont
       <<<<119, 105, 108, 108, 105, 97, 109, 115, 98, 117, 114, 103>>,
         <<70, 114, 101, 109, 111, 110, 116>>>>, \* williamsburg: Fremont
       <<<<99, 111, 116, 111, 112, 97, 120, 105>>,
         <<70, 114, 101, 109, 111, 110, 116>>>>, \* cotopaxi: Fremont
       <<<<115, 97, 108, 105, 100, 97>>,
         <<67, 104, 97, 102, 102, 101, 101>>>>, \* salida: Chaffee
       <<<<98, 117, 101, 110, 97, 32, 118, 105, 115, 116, 97>>,
         <<67, 104, 97, 102, 102, 101, 101>>>>, \* buena vista: Chaffee
       <<<<112, 111, 110, 99, 104, 97, 32, 115, 112, 114, 105, 110, 103, 115>>,
         <<67, 104, 97, 102, 102, 101, 101>>>>, \* poncha springs: Chaffee
       <<<<110, 97, 116, 104, 114, 111, 112>>,
         <<67, 104, 97, 102, 102, 101, 101>>>>, \* nathrop: Chaffee
       <<<<103, 114, 97, 110, 105, 116, 101>>,
         <<67, 104, 97, 102, 102, 101, 101>>>>, \* granite: Chaffee
       <<<<109, 97, 121, 115, 118, 105, 108, 108, 101>>,
         <<67, 104, 97, 102, 102, 101, 101>>>>, \* maysville: Chaffee
       <<<<97, 108, 97, 109, 111, 115, 97>>,
         <<65, 108, 97, 109, 111, 115, 97>>>>, \* alamosa: Alamosa
       <<<<109, 111, 110, 116, 101, 32, 118, 105, 115, 116, 97>>,
         <<82, 105, 111, 32, 71, 114, 97, 110, 100, 101>>>>, \* monte vista: Rio Grande
       <<<<100, 101, 108, 32, 110, 111, 114, 116, 101>>,
         <<82, 105, 111, 32, 71, 114, 97, 110, 100, 101>>>>, \* del norte: Rio Grande
       <<<<115, 111, 117, 116, 104, 32, 102, 111, 114, 107>>,
         <<82, 105, 111, 32, 71, 114, 97, 110, 100, 101>>>>, \* south fork: Rio Grande
       <<<<99, 114, 101, 101, 100, 101>>,
         <<77, 105, 110, 101, 114, 97, 108>>>>, \* creede: Mineral
       <<<<99, 101, 110, 116, 101, 114>>,
         <<82, 105, 111, 32, 71, 114, 97, 110, 100, 101>>>>, \* center: Rio Grande
       <<<<108, 97, 32, 106, 97, 114, 97>>,
         <<67, 111, 110, 101, 106, 111, 115>>>>, \* la jara: Conejos
       <<<<97, 110, 116, 111, 110, 105, 116, 111>>,
         <<67, 111, 110, 101, 106, 111, 115>>>>, \* antonito: Conejos
       <<<<109, 97, 110, 97, 115, 115, 97>>,
         <<67, 111, 110, 101, 106, 111, 115>>>>, \* manassa: Conejos
       <<<<114, 111, 109, 101, 111>>,
         <<67, 111, 110, 101, 106, 111, 115>>>>, \* romeo: Conejos
       <<<<115, 97, 110, 102, 111, 114, 100>>,
         <<67, 111, 110, 101, 106, 111, 115>>>>, \* sanford: Conejos
       <<<<116, 114, 105, 110, 105, 100, 97, 100>>,
         <<76, 97, 115, 32, 65, 110, 105, 109, 97, 115>>>>, \* trinidad: Las Animas
       <<<<119, 97, 108, 115, 101, 110, 98, 117, 114, 103>>,
         <<72, 117, 101, 114, 102, 97, 110, 111>>>>, \* walsenburg: Huerfano
       <<<<108, 97, 32, 118, 101, 116, 97>>,
         <<72, 117, 101, 114, 102, 97, 110, 111>>>>, \* la veta: Huerfano
       <<<<103, 97, 114, 100, 110, 101, 114>>,
         <<72, 117, 101, 114, 102, 97, 110, 111>>>>, \* gardner: Huerfano
       <<<<99, 117, 99, 104, 97, 114, 97>>,
         <<72, 117, 101, 114, 102, 97, 110, 111>>>>, \* cuchara: Huerfano
       <<<<97, 103, 117, 105, 108, 97, 114>>,
         <<76, 97, 115, 32, 65, 110, 105, 109, 97, 115>>>>, \* aguilar: Las Animas
       <<<<115, 101, 103, 117, 110, 100, 111>>,
         <<76, 97, 115, 32, 65, 110, 105, 109, 97, 115>>>>, \* segundo: Las Animas
       <<<<99, 111, 107, 101, 100, 97, 108, 101>>,
         <<76, 97, 115, 32, 65, 110, 105, 109, 97, 115>>>>, \* cokedale: Las Animas
       <<<<115, 116, 97, 114, 107, 118, 105, 108, 108, 101>>,
         <<76, 97, 115, 32, 65, 110, 105, 109, 97, 115>>>>, \* starkville: Las Animas
       <<<<98, 114, 97, 110, 115, 111, 110>>,
         <<76, 97, 115, 32, 65, 110, 105, 109, 97, 115>>>>, \* branson: Las Animas
       <<<<107, 105, 109>>,
         <<76, 97, 115, 32, 65, 110, 105, 109, 97, 115>>>>, \* kim: Las Animas
       <<<<114, 97, 116, 111, 110>>,
         <<67, 111, 108, 102, 97, 120>>>>, \* raton: Colfax
       <<<<115, 112, 114, 105, 110, 103, 101, 114>>,
         <<67, 111, 108, 102, 97, 120>>>>, \* springer: Colfax
       <<<<99, 105, 109, 97, 114, 114, 111, 110>>,
         <<67, 111, 108, 102, 97, 120>>>>, \* cimarron: Colfax
       <<<<109, 97, 120, 119, 101, 108, 108>>,
         <<67, 111, 108, 102, 97, 120>>>>, \* maxwell: Colfax
       <<<<114, 97, 121, 97, 100, 111>>,
         <<67, 111, 108, 102, 97, 120>>>>, \* rayado: Colfax
       <<<<101, 97, 103, 108, 101, 32, 110, 101, 115, 116>>,
         <<67, 111, 108, 102, 97, 120>>>>, \* eagle nest: Colfax
       <<<<97, 110, 103, 101, 108, 32, 102, 105, 114, 101>>,
         <<67, 111, 108, 102, 97, 120>>>>, \* angel fire: Colfax
       <<<<114, 101, 100, 32, 114, 105, 118, 101, 114>>,
         <<84, 97, 111, 115>>>>, \* red river: Taos
       <<<<113, 117, 101, 115, 116, 97>>,
         <<84, 97, 111, 115>>>>, \* questa: Taos
       <<<<116, 97, 111, 115>>,
         <<84, 97, 111, 115>>>>, \* taos: Taos
       <<<<101, 115, 112, 97, 110, 111, 108, 97>>,
         <<82, 105, 111, 32, 65, 114, 114, 105, 98, 97>>>>, \* espanola: Rio Arriba
       <<<<99, 104, 97, 109, 97>>,
         <<82, 105, 111, 32, 65, 114, 114, 105, 98, 97>>>>, \* chama: Rio Arriba
       <<<<116, 105, 101, 114, 114, 97, 32, 97, 109, 97, 114, 105, 108, 108, 97>>,
         <<82, 105, 111, 32, 65, 114, 114, 105, 98, 97>>>>, \* tierra amarilla: Rio Arriba
       <<<<108, 111, 115, 32, 111, 106, 111, 115>>,
         <<82, 105, 111, 32, 65, 114, 114, 105, 98, 97>>>>, \* los ojos: Rio Arriba
       <<<<100, 117, 108, 99, 101>>,
         <<82, 105, 111, 32, 65, 114, 114, 105, 98, 97>>>>, \* dulce: Rio Arriba
       <<<<99, 104, 114, 111, 109, 111>>,
         <<65, 114, 99, 104, 117, 108, 101, 116, 97>>>>, \* chromo: Archuleta
       <<<<97, 114, 98, 111, 108, 101, 115>>,
         <<65, 114, 99, 104, 117, 108, 101, 116, 97>>>>, \* arboles: Archuleta
       <<<<97, 108, 108, 105, 115, 111, 110>>,
         <<82, 105, 111, 32, 65, 114, 114, 105, 98, 97>>>>, \* allison: Rio Arriba
       <<<<108, 117, 109, 98, 101, 114, 116, 111, 110>>,
         <<82, 105, 111, 32, 65, 114, 114, 105, 98, 97>>>>, \* lumberton: Rio Arriba
       <<<<108, 101, 97, 100, 118, 105, 108, 108, 101>>,
         <<76, 97, 107, 101>>>>, \* leadville: Lake
       <<<<116, 119, 105, 110, 32, 108, 97, 107, 101, 115>>,
         <<76, 97, 107, 101>>>>, \* twin lakes: Lake
       <<<<102, 97, 105, 114, 112, 108, 97, 121>>,
         <<80, 97, 114, 107>>>>, \* fairplay: Park
       <<<<97, 108, 109, 97>>,
         <<80, 97, 114, 107>>>>, \* alma: Park
       <<<<99, 111, 109, 111>>,
         <<80, 97, 114, 107>>>>, \* como: Park
       <<<<106, 101, 102, 102, 101, 114, 115, 111, 110>>,
         <<80, 97, 114, 107>>>>, \* jefferson: Park
       <<<<104, 97, 114, 116, 115, 101, 108>>,
         <<80, 97, 114, 107>>>>, \* hartsel: Park
       <<<<103, 117, 102, 102, 101, 121>>,
         <<80, 97, 114, 107>>>>, \* guffey: Park
       <<<<108, 97, 107, 101, 32, 103, 101, 111, 114, 103, 101>>,
         <<80, 97, 114, 107>>>>, \* lake george: Park
       <<<<119, 111, 111, 100, 108, 97, 110, 100, 32, 112, 97, 114, 107>>,
         <<84, 101, 108, 108, 101, 114>>>>, \* woodland park: Teller
       <<<<99, 114, 105, 112, 112, 108, 101, 32, 99, 114, 101, 101, 107>>,
         <<84, 101, 108, 108, 101, 114>>>>, \* cripple creek: Teller
       <<<<118, 105, 99, 116, 111, 114>>,
         <<84, 101, 108, 108, 101, 114>>>>, \* victor: Teller
       <<<<100, 105, 118, 105, 100, 101>>,
         <<84, 101, 108, 108, 101, 114>>>>, \* divide: Teller
       <<<<102, 108, 111, 114, 105, 115, 115, 97, 110, 116>>,
         <<84, 101, 108, 108, 101, 114>>>>, \* florissant: Teller
       <<<<99, 97, 115, 99, 97, 100, 101>>,
         <<69, 108, 32, 80, 97, 115, 111>>>>, \* cascade: El Paso
       <<<<99, 104, 105, 112, 105, 116, 97, 32, 112, 97, 114, 107>>,
         <<69, 108, 32, 80, 97, 115, 111>>>>, \* chipita park: El Paso
       <<<<99, 114, 121, 115, 116, 111, 108, 97>>,
         <<84, 101, 108, 108, 101, 114>>>>, \* crystola: Teller
       <<<<114, 121, 101>>,
         <<80, 117, 101, 98, 108, 111>>>>, \* rye: Pueblo
       <<<<99, 111, 108, 111, 114, 97, 100, 111, 32, 99, 105, 116, 121>>,
         <<80, 117, 101, 98, 108, 111>>>>, \* colorado city: Pueblo
       <<<<98, 101, 117, 108, 97, 104>>,
         <<80, 117, 101, 98, 108, 111>>>>, \* beulah: Pueblo
       <<<<115, 97, 110, 32, 105, 115, 97, 98, 101, 108>>,
         <<80, 117, 101, 98, 108, 111>>>>, \* san isabel: Pueblo
       <<<<119, 101, 116, 109, 111, 114, 101>>,
         <<67, 117, 115, 116, 101, 114>>>>, \* wetmore: Custer
       <<<<115, 105, 108, 118, 101, 114, 32, 99, 108, 105, 102, 102>>,
         <<67, 117, 115, 116, 101, 114>>>>, \* silver cliff: Custer
       <<<<119, 101, 115, 116, 99, 108, 105, 102, 102, 101>>,
         <<67, 117, 115, 116, 101, 114>>>>, \* westcliffe: Custer
       <<<<114, 111, 115, 105, 116, 97>>,
         <<67, 117, 115, 116, 101, 114>>>>, \* rosita: Custer
       <<<<113, 117, 101, 114, 105, 100, 97>>,
         <<67, 117, 115, 116, 101, 114>>>>, \* querida: Custer
       <<<<104, 105, 108, 108, 115, 105, 100, 101>>,
         <<67, 117, 115, 116, 101, 114>>>>, \* hillside: Custer
       <<<<114, 101, 100, 119, 105, 110, 103>>,
         <<72, 117, 101, 114, 102, 97, 110, 111>>>>, \* redwing: Huerfano
       <<<<98, 97, 100, 105, 116, 111>>,
         <<72, 117, 101, 114, 102, 97, 110, 111>>>>, \* badito: Huerfano
       <<<<109, 117, 115, 116, 97, 110, 103>>,
         <<72, 117, 101, 114, 102, 97, 110, 111>>>>, \* mustang: Huerfano
       <<<<102, 97, 114, 105, 115, 105, 116, 97>>,
         <<72, 117, 101, 114, 102, 97, 110, 111>>>>, \* farisita: Huerfano
       <<<<109, 97, 108, 97, 99, 104, 105, 116, 101>>,
         <<72, 117, 101, 114, 102, 97, 110, 111>>>>, \* malachite: Huerfano
       <<<<115, 112, 97, 110, 105, 115, 104, 32, 112, 101, 97, 107, 115>>,
         <<72, 117, 101, 114, 102, 97, 110, 111>>>>, \* spanish peaks: Huerfano
       <<<<115, 116, 111, 110, 101, 119, 97, 108, 108>>,
         <<76, 97, 115, 32, 65, 110, 105, 109, 97, 115>>>>, \* stonewall: Las Animas
       <<<<118, 97, 108, 100, 101, 122>>,
         <<76, 97, 115, 32, 65, 110, 105, 109, 97, 115>>>>, \* valdez: Las Animas
       <<<<119, 101, 115, 116, 111, 110>>,
         <<76, 97, 115, 32, 65, 110, 105, 109, 97, 115>>>>, \* weston: Las Animas
       <<<<115, 111, 112, 114, 105, 115>>,
         <<76, 97, 115, 32, 65, 110, 105, 109, 97, 115>>>>, \* sopris: Las Animas
       <<<<98, 101, 114, 119, 105, 110, 100>>,
         <<76, 97, 115, 32, 65, 110, 105, 109, 97, 115>>>>, \* berwind: Las Animas
       <<<<108, 117, 100, 108, 111, 119>>,
         <<76, 97, 115, 32, 65, 110, 105, 109, 97, 115>>>>, \* ludlow: Las Animas
       <<<<116, 97, 98, 97, 115, 99, 111>>,
         <<76, 97, 115, 32, 65, 110, 105, 109, 97, 115>>>>, \* tabasco: Las Animas
       <<<<109, 111, 114, 108, 101, 121>>,
         <<76, 97, 115, 32, 65, 110, 105, 109, 97, 115>>>>, \* morley: Las Animas
       <<<<109, 97, 100, 114, 105, 100>>,
         <<76, 97, 115, 32, 65, 110, 105, 109, 97, 115>>>>, \* madrid: Las Animas
       <<<<112, 114, 105, 109, 101, 114, 111>>,
         <<76, 97, 115, 32, 65, 110, 105, 109, 97, 115>>>>, \* primero: Las Animas
       <<<<116, 101, 114, 99, 105, 111>>,
         <<76, 97, 115, 32, 65, 110, 105, 109, 97, 115>>>>, \* tercio: Las Animas
       <<<<99, 117, 97, 116, 114, 111>>,
         <<76, 97, 115, 32, 65, 110, 105, 109, 97, 115>>>>, \* cuatro: Las Animas
       <<<<106, 97, 110, 115, 101, 110>>,
         <<76, 97, 115, 32, 65, 110, 105, 109, 97, 115>>>>, \* jansen: Las Animas
       <<<<104, 111, 101, 104, 110, 101>>,
         <<76, 97, 115, 32, 65, 110, 105, 109, 97, 115>>>>, \* hoehne: Las Animas
       <<<<109, 111, 100, 101, 108>>,
         <<76, 97, 115, 32, 65, 110, 105, 109, 97, 115>>>>, \* model: Las Animas
       <<<<116, 104, 97, 116, 99, 104, 101, 114>>,
         <<76, 97, 115, 32, 65, 110, 105, 109, 97, 115>>>>, \* thatcher: Las Animas
       <<<<116, 121, 114, 111, 110, 101>>,
         <<76, 97, 115, 32, 65, 110, 105, 109, 97, 115>>>>, \* tyrone: Las Animas
       <<<<118, 97, 110, 32, 98, 114, 101, 109, 101, 114>>,
         <<76, 97, 115, 32, 65, 110, 105, 109, 97, 115>>>>, \* van bremer: Las Animas
       <<<<118, 105, 103, 105, 108>>,
         <<76, 97, 115, 32, 65, 110, 105, 109, 97, 115>>>>, \* vigil: Las Animas
       <<<<119, 111, 111, 116, 116, 111, 110>>,
         <<76, 97, 115, 32, 65, 110, 105, 109, 97, 115>>>>>> \* wootton: Las Animas

\* ColoradoCounties.get_county_for_city
get_county_for_city(city_name) ==
    IF isna(city_name) THEN None
    ELSE IF DictHas(city_to_county, lower(city_name.s))
    THEN Str(DictGet(city_to_county, lower(city_name.s)))
    ELSE None

\* ColoradoCounties._create_fallback_county_map: the rows of the scatter plot.
\* dropna(subset=['lat', 'lon']) keeps the counties that are keys of
\* county_centers, in a frame of its own: the caller's county_counts keeps
\* every county
_create_fallback_county_map(county_counts) ==
    LET county_centers ==
            {
             <<68, 101, 110, 118, 101, 114>>, \* Denver
             <<74, 101, 102, 102, 101, 114, 115, 111, 110>>, \* Jefferson
             <<65, 114, 97, 112, 97, 104, 111, 101>>, \* Arapahoe
             <<65, 100, 97, 109, 115>>, \* Adams
             <<66, 111, 117, 108, 100, 101, 114>>, \* Boulder
             <<69, 108, 32, 80, 97, 115, 111>>, \* El Paso
             <<76, 97, 114, 105, 109, 101, 114>>, \* Larimer
             <<87, 101, 108, 100>>, \* Weld
             <<77, 101, 115, 97>>, \* Mesa
             <<80, 117, 101, 98, 108, 111>>} \* Pueblo
    IN  [g \in {x \in DOMAIN county_counts :
                    x[1].k = "str" /\ x[1].s \in county_centers} |->
            county_counts[g]]

\* ColoradoCounties.create_county_choropleth_map: county_counts of lines
\* 346-348, and the rows drawn: all of them on the choropleth, those of the
\* fallback figure when the GeoJSON file cannot be read
create_county_choropleth_map(matched_data, geojson) ==
    LET county_counts ==
            groupby_size(
                set_column(matched_data, "county",
                    list_of([q \in Rows(matched_data) |->
                                 get_county_for_city(
                                     matched_data.data["matched_city"][q])],
                            Len(matched_data.index))),
                Matched(matched_data), <<"county">>)
    IN  IF Matched(matched_data) = {}
        THEN Aggregate("create_county_choropleth_map", "none", <<>>)
        ELSE IF geojson = "ok"
        THEN Aggregate("create_county_choropleth_map", "none", county_counts)
        ELSE [Aggregate("create_county_choropleth_map", "none", county_counts)
                 EXCEPT !.drawn = _create_fallback_county_map(county_counts)]

-----------------------------------------------------------------------------
(* the inputs of the model *)

MaxRows == 2
MaxRuns == 2
MaxLen == 3
MaxCopies == 2

Backends == {"difflib", "levenshtein"}
\* without python-Levenshtein installed fuzzywuzzy uses difflib
BatchBackends == {"difflib"}

EmptyCatalog == [City |-> <<>>, Latitude |-> <<>>, Longitude |-> <<>>]

\* a catalog with the cities that have hand-written abbreviations, and one
\* whose name holds a state token
OtherCatalog ==
    [City |-> <<SecurityWidefield, CastleRock, GrandJunction,
                <<67, 111, 108, 111, 114, 97, 100, 111, 32, 67, 105, 116, 121>>>>, \* "Colorado City"
     Latitude |-> <<3875, 3937, 3906, 3794>>,
     Longitude |-> <<-10472, -10486, -10855, -10484>>]

\* a catalog file with a Population column
PopulationCatalog ==
    [City |-> <<<<68, 101, 110, 118, 101, 114>>, \* "Denver"
                <<66, 111, 117, 108, 100, 101, 114>>>>, \* "Boulder"
     Latitude |-> <<3974, 4002>>,
     Longitude |-> <<-10499, -10527>>,
     Population |-> <<715522, 108250>>]

ResolveCatalogs == {DEFAULT_CITIES, EmptyCatalog, OtherCatalog}

Thresholds == {0, 80, 100}
ResolveThresholds == {0, 60, 80, 100, 101}

\* cells of a location column
BatchLocations ==
    {NaN, ListCell,
     Str(<<68, 101, 110, 118, 101, 114, 44, 32, 67, 79>>),  \* "Denver, CO"
     Str(<<68, 101, 110, 118, 114>>),                       \* "Denvr"
     Str(<<65, 115, 112, 101, 110>>),                        \* "Aspen"
     Str(<<67, 79>>)}                                      \* "CO"

RangeIndex(n) == [q \in 1..n |-> q - 1]

Title(n) == [q \in 1..n |-> Str(<<120>>)] \* a column the code never reads: "x"

Tables ==
    {[index |-> idx, data |-> [location |-> cells, title |-> Title(Len(cells))]] :
        <<cells, idx>> \in
            UNION {[1..n -> BatchLocations] \X {RangeIndex(n), [q \in 1..n |-> 0]} :
                      n \in 0..MaxRows}}
    \cup {[index |-> RangeIndex(n), data |-> [title |-> Title(n)]] : n \in 0..MaxRows}
    \cup {[index |-> RangeIndex(1),
           data |-> ("location" :> <<Str(<<66, 111, 117, 108, 100, 101, 114>>)>>) \* "Boulder"
                    @@ ("jobs[0].function" :> <<Str(<<120>>)>>)]}

\* every str over these characters, up to MaxLen of them: c o C , _ space
SmallStrings == UNION {[1..n -> {99, 111, 67, 44, 95, 32}] : n \in 0..MaxLen}

upper(s) == [i \in 1..Len(s) |-> IF IsLower(s[i]) THEN s[i] - 32 ELSE s[i]]

\* locations as job postings write them
NamedLocations ==
    {Str(s) : s \in {
        <<68, 101, 110, 118, 101, 114, 44, 32, 67, 79>>, \* 'Denver, CO'
        <<70, 116, 32, 67, 111, 108, 108, 105, 110, 115>>, \* 'Ft Collins'
        <<78, 111, 119, 104, 101, 114, 101, 118, 105, 108, 108, 101, 44, 32, 88, 88>>, \* 'Nowhereville, XX'
        <<120, 121, 122>>, \* 'xyz'
        <<82, 101, 109, 111, 116, 101, 32, 45, 32, 66, 111, 117, 108, 100, 101, 114, 44, 32, 67, 79>>, \* 'Remote - Boulder, CO'
        <<68, 101, 110, 118, 114>>, \* 'Denvr'
        <<65, 115, 112, 101, 110>>, \* 'Aspen'
        <<32, 32, 9>>, \* '  \t'
        <<114, 101, 109, 111, 116, 101>>, \* 'remote'
        <<82, 101, 109, 111, 116, 101, 59, 32, 67, 79>>, \* 'Remote; CO'
        <<117, 115, 97, 44, 32, 117, 110, 105, 116, 101, 100, 32, 115, 116, 97, 116, 101, 115>>, \* 'usa, united states'
        <<68, 111, 119, 110, 116, 111, 119, 110, 32, 77, 101, 116, 114, 111, 32, 65, 114, 101, 97>>, \* 'Downtown Metro Area'
        <<72, 121, 98, 114, 105, 100, 32, 45, 32, 68, 101, 110, 118, 101, 114, 32, 77, 101, 116, 114, 111, 32, 65, 114, 101, 97>>, \* 'Hybrid - Denver Metro Area'
        <<67, 111, 108, 108, 105, 110, 115, 32, 70, 111, 114, 116>>, \* 'Collins Fort'
        <<65, 117, 114, 111, 114, 97, 32, 68, 101, 110, 118, 101, 114>>, \* 'Aurora Denver'
        <<70, 116, 32, 67, 111, 108, 105, 110, 115>>, \* 'Ft Colins'
        <<67, 111, 108, 108, 105, 110, 44, 32, 67, 111, 108, 108, 105, 110, 115>>}} \* 'Collin, Collins'

\* cells of a location column that name cities of OtherCatalog, and a city
\* that only the county indexes know
DerivedLocations ==
    {NaN,
     Str(<<67, 97, 115, 116, 108, 101, 32, 82, 111, 99, 107>>), \* "Castle Rock"
     Str(<<83, 101, 99, 117, 114, 105, 116, 121, 45, 87, 105, 100, 101, 102, 105, 101, 108, 100>>), \* "Security-Widefield"
     Str(<<67, 111, 108, 111, 114, 97, 100, 111, 32, 67, 105, 116, 121>>), \* "Colorado City"
     Str(<<65, 115, 112, 101, 110>>)} \* "Aspen"

DerivedTables ==
    {[index |-> RangeIndex(Len(cells)),
      data |-> [location |-> cells, title |-> Title(Len(cells))]] :
        cells \in UNION {[1..n -> DerivedLocations] : n \in 0..MaxRows}}

\* a catalog whose file writes the city names in capitals
UpperCatalog ==
    [City |-> <<<<67, 65, 83, 84, 76, 69, 32, 82, 79, 67, 75>>, \* "CASTLE ROCK"
                <<71, 82, 65, 78, 68, 32, 74, 85, 78, 67, 84, 73, 79, 78>>>>, \* "GRAND JUNCTION"
     Latitude |-> <<3937, 3906>>,
     Longitude |-> <<-10486, -10855>>]

DerivedCatalogs == {OtherCatalog, UpperCatalog}

ResolveLocations ==
    {NaN, None, ListCell}
    \cup {Str(s) : s \in SmallStrings}
    \cup NamedLocations

\* locations given to the two normalising methods
NormalizeLocations ==
    (ResolveLocations \ {ListCell})
    \cup {Str(<<85, 110, 105, 116, 101, 100, 32, 32, 83, 116, 97, 116, 101, 115>>), \* "United  States"
          Str(<<66, 111, 117, 108, 100, 101, 114, 44, 32, 66, 111, 117, 108, 100, 101, 114, 32, 67, 111, 117, 110, 116, 121>>), \* "Boulder, Boulder County"
          Str(<<77, 101, 116, 114, 111, 59, 32, 68, 101, 110, 118, 101, 114>>), \* "Metro; Denver"
          Str(<<68, 101, 110, 118, 101, 114, 95, 67, 79>>)} \* "Denver_CO"

\* tables for the statistics: up to six locations that match no city at the
\* usual thresholds, the last of them on up to MaxCopies rows, then a row
\* that matches and a row without a location
Copies(cell, n) == [i \in 1..n |-> cell]

Unknown(c) == Str(<<c>>)

StatsTables ==
    {[index |-> RangeIndex(Len(cells)),
      data |-> [location |-> cells, title |-> Title(Len(cells))]] :
        cells \in
            {Copies(Unknown(112), c[1]) \o Copies(Unknown(113), c[2])
                \o Copies(Unknown(118), c[3]) \o Copies(Unknown(119), c[4])
                \o Copies(Unknown(120), c[5]) \o Copies(Unknown(122), c[6])
                \o Copies(Str(<<68, 101, 110, 118, 101, 114>>), c[7]) \* "Denver"
                \o Copies(NaN, c[8]) :
                    c \in (0..1) \X (0..1) \X (0..1) \X (0..1) \X (0..1)
                              \X (0..MaxCopies) \X (0..1) \X (0..1)}}
    \cup {[index |-> RangeIndex(0), data |-> [title |-> Title(0)]]}

\* the file is there with a catalog in it, or it is not and holds nothing
Files ==
    {File("ok", cat) : cat \in {DEFAULT_CITIES, OtherCatalog, UpperCatalog}}
    \cup {File(state, EmptyCatalog) : state \in {"missing", "unreadable", "empty", "malformed"}}

-----------------------------------------------------------------------------
(* the calls *)

Call(op, t, location, m, processed) ==
    [op |-> op, threshold |-> t, location |-> location, city |-> m.city,
     conf |-> m.conf, exc |-> m.exc, processed |-> processed]

NoCall == Call("none", 0, None, Returned(None, 0), 0)

BatchOps == {"match_locations", "process_job_data"}

\* the keys of the alias index, as they are and in upper and title case
AliasKeyLocations ==
    UNION {{Str(k), Str(upper(k)), Str(title(k))} :
              k \in {city_variations[i][1] : i \in 1..Len(city_variations)}}

\* matcher.match_location_to_city(location, t)
MatchLocationToCity ==
    /\ call.op = "pending"
    /\ call' = Call("match_location_to_city", call.threshold, call.location,
                    match_location_to_city(cities.City, city_variations,
                                           call.location, call.threshold), 0)
    /\ UNCHANGED <<county_geojson, stats, data_file, backend, cities, city_variations, job_data, result_df,
                   runs, first_call, agg>>

\* matcher.match_location_to_city(location, t) once more, on the location of
\* the call before and at a threshold of the caller's choice
MatchLocationToCityAgain ==
    /\ call.op = "match_location_to_city"
    /\ runs = 0
    /\ \E t \in ResolveThresholds :
          call' = Call("match_location_to_city", t, call.location,
                       match_location_to_city(cities.City, city_variations,
                                              call.location, t), 0)
    /\ first_call' = [call |-> call, ret |-> NoTable]
    /\ runs' = 1
    /\ UNCHANGED <<county_geojson, stats, data_file, backend, cities, city_variations, job_data,
                   result_df, agg>>

\* a batch call ended with outcome out
BatchCall(op, t, out) ==
    /\ call' = Call(op, t, None, Raised(out.exc), out.processed)
    /\ result_df' = out.ret
    /\ job_data' = out.arg
    /\ runs' = runs + 1
    /\ first_call' = IF runs = 0 THEN [call |-> call', ret |-> out.ret]
                     ELSE first_call
    /\ agg' = NoAgg
    /\ stats' = NoStats
    /\ UNCHANGED <<county_geojson, data_file, backend, cities, city_variations>>

\* a caller uses one of the two batch entry points, at most MaxRuns times on
\* its table, and computes the aggregates after that; main() of app.py gets
\* there when load_cities has returned
MayCall(op) ==
    /\ call.op # "main"
    /\ call.op = "load_cities" => call.exc = "none"
    /\ runs < MaxRuns
    /\ runs > 0 => first_call.call.op = op
    /\ agg = NoAgg
    /\ stats = NoStats

\* matcher.match_locations(job_data, t)
MatchLocations ==
    /\ MayCall("match_locations")
    /\ \E t \in Thresholds :
        BatchCall("match_locations", t,
                  match_locations(cities.City, city_variations, job_data, t))

\* process_job_data(job_data, cities, t)
ProcessJobData ==
    /\ MayCall("process_job_data")
    /\ \E t \in Thresholds :
        BatchCall("process_job_data", t, process_job_data(job_data, cities, t))

\* a batch call returned a table and no aggregate of it has raised: an
\* exception that nothing catches ends the run
Returned_a_table ==
    /\ call.op \in BatchOps
    /\ call.exc = "none"
    /\ agg.exc = "none"

\* create_city_map(result_df)
CreateCityMap ==
    /\ Returned_a_table
    /\ agg' = create_city_map(result_df)
    /\ UNCHANGED <<county_geojson, stats, data_file, backend, cities, city_variations, job_data, call, result_df,
                   runs, first_call>>

\* HeatmapGenerator(cities).create_heatmap(result_df)
CreateHeatmap ==
    /\ Returned_a_table
    /\ agg' = create_heatmap(cities, result_df)
    /\ UNCHANGED <<county_geojson, stats, data_file, backend, cities, city_variations, job_data, call, result_df,
                   runs, first_call>>

\* display_data_tables(result_df)
DisplayDataTables ==
    /\ Returned_a_table
    /\ agg' = display_data_tables(result_df)
    /\ UNCHANGED <<county_geojson, stats, data_file, backend, cities, city_variations, job_data, call, result_df,
                   runs, first_call>>

\* create_county_map(result_df)
CreateCountyMap ==
    /\ Returned_a_table
    /\ agg' = create_county_map(result_df, county_geojson)
    /\ UNCHANGED <<county_geojson, stats, data_file, backend, cities, city_variations, job_data, call, result_df,
                   runs, first_call>>

\* colorado_counties.create_county_choropleth_map(result_df)
CreateCountyChoroplethMap ==
    /\ Returned_a_table
    /\ agg' = create_county_choropleth_map(result_df, county_geojson)
    /\ UNCHANGED <<county_geojson, stats, data_file, backend, cities, city_variations, job_data, call, result_df,
                   runs, first_call>>

\* matcher._clean_location(location)
CleanLocation ==
    /\ call.op = "pending"
    /\ call' = Call("_clean_location", call.threshold, call.location,
                    Returned(Str(_clean_location(call.location)), 0), 0)
    /\ UNCHANGED <<county_geojson, stats, data_file, backend, cities, city_variations, job_data,
                   result_df, runs, first_call, agg>>

\* matcher._clean_location(cleaned), on what _clean_location returned
CleanLocationAgain ==
    /\ call.op = "_clean_location"
    /\ runs = 0
    /\ call' = Call("_clean_location", call.threshold, call.city,
                    Returned(Str(_clean_location(call.city)), 0), 0)
    /\ first_call' = [call |-> call, ret |-> NoTable]
    /\ runs' = 1
    /\ UNCHANGED <<county_geojson, stats, data_file, backend, cities, city_variations, job_data,
                   result_df, agg>>

\* matcher._extract_city_from_location(location)
ExtractCityFromLocation ==
    /\ call.op = "pending"
    /\ call' = Call("_extract_city_from_location", call.threshold,
                    call.location,
                    Returned(Str(_extract_city_from_location(call.location)), 0),
                    0)
    /\ UNCHANGED <<county_geojson, stats, data_file, backend, cities, city_variations, job_data,
                   result_df, runs, first_call, agg>>

\* matcher.get_matching_stats(result_df), on what match_locations returned
GetMatchingStats ==
    /\ call.op = "match_locations"
    /\ call.exc = "none"
    /\ stats' = get_matching_stats(result_df)
    /\ UNCHANGED <<county_geojson, data_file, backend, cities, city_variations, job_data, call,
                   result_df, runs, first_call, agg>>

\* cities = load_cities() of main(): an exception ends main()
LoadCities ==
    /\ call.op = "main"
    /\ call' = Call("load_cities", 0, None,
                    Raised(load_cities(data_file).exc), 0)
    /\ cities' = load_cities(data_file).table
    /\ UNCHANGED <<county_geojson, stats, data_file, backend, city_variations, job_data, result_df,
                   runs, first_call, agg>>

\* data = process_job_data(df, cities, threshold) of main(), at a threshold
\* of the slider, and the industry filter after it: data keeps the rows of
\* the industries selected, every row when none is selected; an exception
\* ends main()
MainProcessJobData ==
    /\ call.op = "load_cities"
    /\ call.exc = "none"
    /\ \E t \in {60, 80, 100} :
        LET out == process_job_data(job_data, cities, t)
            industry == out.ret.data["industry"]
            industry_options ==
                {industry[q] : q \in {r \in Rows(out.ret) : ~isna(industry[r])}}
            isin(selected) == {q \in Rows(out.ret) : industry[q] \in selected}
            filtered(keep) ==
                [index |-> [i \in 1..Cardinality(keep) |->
                               out.ret.index[Nth(keep, i)]],
                 data |-> [c \in Columns(out.ret) |->
                              [i \in 1..Cardinality(keep) |->
                                  out.ret.data[c][Nth(keep, i)]]]]
        IN  IF out.exc # "none" THEN BatchCall("process_job_data", t, out)
            ELSE \E selected_industries \in SUBSET industry_options :
                    BatchCall("process_job_data", t,
                        IF selected_industries = {} THEN out
                        ELSE [out EXCEPT
                                 !.ret = filtered(isin(selected_industries))])

\* LocationMatcher(cities): __init__ builds the alias index
Constructed(cat) ==
    /\ data_file = File("ok", cat)
    /\ cities = cat
    /\ city_variations = create_city_variations(cat.City, Len(cat.City))
    /\ result_df = NoTable
    /\ runs = 0
    /\ first_call = [call |-> NoCall, ret |-> NoTable]
    /\ agg = NoAgg
    /\ stats = NoStats

\* batch processing of a table, and the aggregates of its result
Init ==
    /\ backend \in BatchBackends
    /\ county_geojson = "missing"
    /\ \E cat \in {DEFAULT_CITIES, PopulationCatalog} : Constructed(cat)
    /\ job_data \in Tables
    /\ call = NoCall

Next ==
    \/ MatchLocations
    \/ ProcessJobData
    \/ CreateCityMap
    \/ CreateHeatmap
    \/ DisplayDataTables

Spec == Init /\ [][Next]_vars

\* one call of match_location_to_city, on a location and a threshold
InitResolve ==
    /\ backend \in Backends
    /\ county_geojson = "missing"
    /\ \E cat \in ResolveCatalogs : Constructed(cat)
    /\ job_data = NoTable
    /\ \E location \in ResolveLocations \cup AliasKeyLocations,
          t \in ResolveThresholds :
            call = Call("pending", t, location, Returned(None, 0), 0)

NextResolve == MatchLocationToCity

SpecResolve == InitResolve /\ [][NextResolve]_vars

\* batch processing of a table against a catalog whose cities are not all in
\* the county indexes, and the by-county aggregates of its result
InitDerived ==
    /\ backend \in BatchBackends
    /\ county_geojson \in {"ok", "missing"}
    /\ \E cat \in DerivedCatalogs : Constructed(cat)
    /\ job_data \in DerivedTables
    /\ call = NoCall

NextDerived ==
    \/ MatchLocations
    \/ ProcessJobData
    \/ CreateCountyMap
    \/ CreateCountyChoroplethMap

SpecDerived == InitDerived /\ [][NextDerived]_vars

\* main() of app.py on an uploaded file: the catalog is loaded, the table
\* read from the file is processed against it, the map of the view chosen
\* is drawn when a row is matched (display_metrics), and the tables are
\* displayed; an exception at any step ends the run
InitLoad ==
    /\ backend \in BatchBackends
    /\ county_geojson \in {"ok", "missing"}
    /\ data_file \in Files
    /\ cities = EmptyCatalog
    /\ city_variations = <<>>
    /\ job_data \in DerivedTables
                    \cup {[index |-> RangeIndex(2),
                           data |-> ("location" :>
                                        <<Str(<<67, 97, 115, 116, 108, 101, 32, 82, 111, 99, 107>>), \* "Castle Rock"
                                          Str(<<65, 115, 112, 101, 110>>)>>) \* "Aspen"
                                    @@ ("jobs[0].function" :>
                                           <<Str(<<120>>), Str(<<121>>)>>)]} \* "x", "y"
    /\ call = Call("main", 0, None, Returned(None, 0), 0)
    /\ result_df = NoTable
    /\ runs = 0
    /\ first_call = [call |-> NoCall, ret |-> NoTable]
    /\ agg = NoAgg
    /\ stats = NoStats

NextLoad ==
    \/ LoadCities
    \/ MainProcessJobData
    \/ /\ agg = NoAgg
       /\ Matched(result_df) # {}
       /\ (CreateCityMap \/ CreateCountyMap)
    \/ /\ agg = NoAgg => Matched(result_df) = {}
       /\ agg.by # "display_data_tables"
       /\ DisplayDataTables

SpecLoad == InitLoad /\ [][NextLoad]_vars

\* a call of match_location_to_city on a location as postings write them, or
\* on an alias key, and a second call on that location at a threshold of the
\* caller's choice
InitStages ==
    /\ backend \in Backends
    /\ county_geojson = "missing"
    /\ \E cat \in ResolveCatalogs : Constructed(cat)
    /\ job_data = NoTable
    /\ \E location \in {NaN, None} \cup NamedLocations \cup AliasKeyLocations,
          t \in ResolveThresholds :
            call = Call("pending", t, location, Returned(None, 0), 0)

NextStages ==
    \/ MatchLocationToCity
    \/ MatchLocationToCityAgain

SpecStages == InitStages /\ [][NextStages]_vars

\* one call of _clean_location or of _extract_city_from_location, and
\* _clean_location of what _clean_location returned
InitNormalize ==
    /\ backend \in Backends
    /\ county_geojson = "missing"
    /\ Constructed(DEFAULT_CITIES)
    /\ job_data = NoTable
    /\ \E location \in NormalizeLocations :
          call = Call("pending", 0, location, Returned(None, 0), 0)

NextNormalize ==
    \/ CleanLocation
    \/ ExtractCityFromLocation
    \/ CleanLocationAgain

SpecNormalize == InitNormalize /\ [][NextNormalize]_vars

\* a table is resolved by match_locations and its statistics are computed
InitStats ==
    /\ backend \in BatchBackends
    /\ county_geojson = "missing"
    /\ Constructed(DEFAULT_CITIES)
    /\ job_data \in StatsTables
    /\ call = NoCall

NextStats ==
    \/ MatchLocations
    \/ GetMatchingStats

SpecStats == InitStats /\ [][NextStats]_vars

-----------------------------------------------------------------------------
(* the properties *)

\* the number held by a numeric cell
number(v) == v.s[1]

\* the call of match_location_to_city has ended
Resolved == call.op = "match_location_to_city"

\* C1: match_location_to_city returns (None, 0) whenever the location is null,
\* empty, whitespace-only, or leaves an empty city candidate after cleaning
\* and extraction, for every catalog and every threshold
C1_EmptyCandidateIsUnmatched ==
    (/\ Resolved
     /\ call.location.k # "list"
     /\ \/ isna(call.location)
        \/ _extract_city_from_location(call.location) = <<>>)
    => (call.exc = "none" /\ call.city = None /\ call.conf = 0)

\* C2: match_location_to_city applied to a key of the alias index, in any
\* letter case, returns a confidence of exactly 100, for every catalog and
\* every threshold
C2_AliasKeyScores100 ==
    (Resolved /\ call.location \in AliasKeyLocations)
    => (call.exc = "none" /\ call.conf = 100)

\* C3: in every record match_locations produces, matched_city is non-null
\* exactly when match_confidence is above 0, for every threshold
C3_MatchedIffConfident ==
    (call.op = "match_locations" /\ call.exc = "none")
    => \A q \in Rows(result_df) :
          ~isna(result_df.data["matched_city"][q])
          <=> number(result_df.data["match_confidence"][q]) > 0

\* the table was resolved at least twice, and the first and the latest call
\* both returned
Rerun == runs >= 2 /\ first_call.call.exc = "none" /\ call.exc = "none"

\* C4: for one table and catalog and thresholds t1 < t2, the rows marked as
\* matched at t2 are among the rows marked as matched at t1
C4_ThresholdMonotone ==
    Rerun =>
        /\ first_call.call.threshold <= call.threshold
              => Matched(result_df) \subseteq Matched(first_call.ret)
        /\ call.threshold <= first_call.call.threshold
              => Matched(first_call.ret) \subseteq Matched(result_df)

\* a row matched at threshold 80 is no longer matched at threshold 100, and
\* another row is matched at both
C4_Witness ==
    /\ Rerun
    /\ runs = 2
    /\ first_call.call.threshold = 80
    /\ call.threshold = 100
    /\ Matched(result_df) # {}
    /\ Matched(result_df) # Matched(first_call.ret)

\* C5: a fault raised while one row is resolved is caught: that row is
\* unmatched with confidence 0, every row of the batch is returned, and the
\* batch call does not abort
C5_RowFaultIsCaught ==
    (call.op \in BatchOps /\ "location" \in Columns(job_data))
    => /\ call.exc = "none"
       /\ call.processed = Len(job_data.index)
       /\ result_df.index = job_data.index
       /\ \A q \in Rows(job_data) :
             job_data.data["location"][q].k = "list"
             => /\ isna(result_df.data["matched_city"][q])
                /\ "match_confidence" \in Columns(result_df)
                      => number(result_df.data["match_confidence"][q]) = 0

\* C6: on a table without a location column the batch call fails with a
\* schema error before any row is processed, changes nothing and returns
\* nothing, also when the table has no rows
C6_NoLocationColumnFailsFast ==
    (call.op \in BatchOps /\ "location" \notin Columns(job_data))
    => /\ call.exc = "KeyError"
       /\ call.processed = 0
       /\ result_df = NoTable
       /\ Columns(job_data) = {"title"}

\* C7: a batch call that returns leaves the caller's table with the columns
\* and cells it had, leaves the catalog as it was, and returns a table that
\* is not the caller's
C7_InputsUntouched ==
    [][(call'.op \in BatchOps /\ runs' = runs + 1 /\ call'.exc = "none")
       => /\ job_data' = job_data
          /\ cities' = cities
          /\ city_variations' = city_variations
          /\ result_df' # job_data']_vars

\* C8: match_locations returns one record per input row in input order, and
\* the matched_city and match_confidence at a position are what
\* match_location_to_city gives for that row's own location, also when rows
\* share an index label
C8_RowsResolvedIndependently ==
    [][(call'.op = "match_locations" /\ runs' = runs + 1 /\ call'.exc = "none")
       => /\ result_df'.index = job_data.index
          /\ "location" \in Columns(job_data)
                => \A q \in Rows(job_data) :
                      LET m == match_location_to_city(
                                   cities.City, city_variations,
                                   job_data.data["location"][q],
                                   call'.threshold)
                      IN  /\ result_df'.data["matched_city"][q] = m.city
                          /\ result_df'.data["match_confidence"][q]
                                = Num(m.conf)]_vars

\* the columns of a resolved record
ResultColumns ==
    {"matched_city", "match_confidence", "latitude", "longitude", "county"}

\* C9: a second batch call on the same table, catalog and threshold gives the
\* matched_city, confidence, coordinates and county of the first at every
\* position; process_job_data is given the table object of its first run
C9_RerunIsIdentical ==
    (runs >= 2 /\ call.threshold = first_call.call.threshold)
    => /\ call.exc = first_call.call.exc
       /\ call.processed = first_call.call.processed
       /\ result_df.index = first_call.ret.index
       /\ Columns(result_df) = Columns(first_call.ret)
       /\ \A c \in ResultColumns \cap Columns(result_df) :
             result_df.data[c] = first_call.ret.data[c]

\* process_job_data ran twice at one threshold on a table it had already
\* changed, with a matched and an unmatched row
C9_Witness ==
    /\ Rerun
    /\ runs = 2
    /\ call.op = "process_job_data"
    /\ call.threshold = first_call.call.threshold
    /\ "matched_city" \in Columns(job_data)
    /\ Matched(result_df) # {}
    /\ Matched(result_df) # Rows(result_df)

\* C10: the job counts of a by-city aggregate sum to the number of rows with
\* a matched city, rows of a city without coordinates included
C10_CityCountsSumToMatched ==
    (agg.by # "none" /\ agg.exc = "none")
    => TotalCount(agg.counts) = Cardinality(Matched(result_df))

\* the county index an aggregate reads
CountyIndex ==
    IF agg.by = "create_county_map" THEN CITY_TO_COUNTY ELSE city_to_county

\* the matched rows whose city is a key of the county index
HaveCounty ==
    {q \in Matched(result_df) :
        DictHas(CountyIndex, lower(result_df.data["matched_city"][q].s))}

ByCounty ==
    /\ agg.by \in {"create_county_map", "create_county_choropleth_map"}
    /\ agg.exc = "none"

\* C11: the job counts of a by-county aggregate sum to at most the number of
\* matched rows, to exactly that number if and only if every matched city has
\* a county in the county index, and a matched row without a county is in no
\* county group
C11_CountyCountsBounded ==
    ByCounty
    => /\ TotalCount(agg.counts) <= Cardinality(Matched(result_df))
       /\ TotalCount(agg.counts) = Cardinality(Matched(result_df))
             <=> HaveCounty = Matched(result_df)
       /\ TotalCount(agg.counts) = Cardinality(HaveCounty)

\* a by-county aggregate of a table with a matched row that has a county and
\* a matched row that has none
C11_Witness ==
    /\ ByCounty
    /\ agg.by = "create_county_map"
    /\ TotalCount(agg.counts) >= 1
    /\ TotalCount(agg.counts) < Cardinality(Matched(result_df))

\* the city is a city of the catalog, letter case aside
InCatalog(city) ==
    \E i \in 1..Len(cities.City) : lower(cities.City[i]) = lower(city.s)

\* C12: in every record of process_job_data, latitude and longitude are
\* non-null when matched_city is non-null and names a city of the catalog,
\* letter case aside, and null when matched_city is null
C12_CoordinatesFollowCity ==
    (call.op = "process_job_data" /\ call.exc = "none")
    => \A q \in Rows(result_df) :
          LET city == result_df.data["matched_city"][q]
              latitude == result_df.data["latitude"][q]
              longitude == result_df.data["longitude"][q]
          IN  /\ isna(city) => isna(latitude) /\ isna(longitude)
              /\ (~isna(city) /\ InCatalog(city))
                    => ~isna(latitude) /\ ~isna(longitude)

\* C13: match_location_to_city returns a confidence of 100 only when the
\* extracted city candidate is a key of the alias index: a match made by a
\* fuzzy stage has a confidence below 100
C13_Only_AliasKeysScore100 ==
    (Resolved /\ call.exc = "none" /\ call.conf = 100)
    => DictHas(city_variations, _extract_city_from_location(call.location))

\* C14: when the city reference file cannot be read (missing, unreadable,
\* empty or malformed), load_cities returns the built-in catalog of 6 cities
\* and raises nothing
C14_UnreadableFileFallsBack ==
    (call.op = "load_cities" /\ data_file.state # "ok")
    => /\ call.exc = "none"
       /\ cities = DEFAULT_CITIES
       /\ Len(cities.City) = 6

\* the str a normalising call returned
Cleaned == call.op = "_clean_location"
Extracted == call.op = "_extract_city_from_location"
text == call.city.s

\* a word of words stands in s as a whole word
HasWholeWord(s, words) == \E p \in 1..Len(s) : FirstAlt(s, p, words) # 0

\* C15: the result of _clean_location is in lower case and holds none of
\* co, colorado, usa, us, united states as a whole word
C15_CleanedHasNoStateToken ==
    Cleaned => /\ text = lower(text)
               /\ ~HasWholeWord(text, StateTokens)

\* C16: the result of _clean_location holds letters, digits and single spaces
\* only, and no space at either end
C16_CleanedIsAlphanumeric ==
    Cleaned
    => /\ \A p \in 1..Len(text) :
             IsUpper(text[p]) \/ IsLower(text[p]) \/ IsDigit(text[p])
                \/ text[p] = 32
       /\ text # <<>> => text[1] # 32 /\ text[Len(text)] # 32
       /\ \A p \in 1..(Len(text) - 1) : ~(text[p] = 32 /\ text[p + 1] = 32)

\* the location is a str with a ',' or a ';' in it
HasSeparator ==
    /\ call.location.k = "str"
    /\ \E p \in 1..Len(call.location.s) : call.location.s[p] \in {44, 59}

\* C17: for a location with a ',' or ';' in it, the candidate of
\* _extract_city_from_location is the candidate of the text before the first
\* separator alone, and holds no noise term as a whole word
C17_CandidateIsFirstSegment ==
    (Extracted /\ HasSeparator)
    => /\ text = _extract_city_from_location(
                     Str(FirstPart(call.location.s, {44, 59})))
       /\ ~HasWholeWord(text, NoiseWords)

\* the rows of the resolved table without a matched city, and the number of
\* them that hold the raw location v
Unmatched == Rows(result_df) \ Matched(result_df)
UnmatchedCount(v) ==
    Cardinality({q \in Unmatched : result_df.data["location"][q] = v})

\* C18: for a resolved table get_matching_stats returns total_jobs =
\* matched_jobs + unmatched_jobs, matched_jobs the number of rows with a
\* matched city, a match_rate of 0 and no error for an empty table, an
\* average_confidence of 0 when no row is matched, and at most 5 raw
\* locations of unmatched rows with their counts, none of them on fewer rows
\* than an unmatched raw location that is left out
C18_StatsAreConsistent ==
    (call.op = "match_locations" /\ call.exc = "none"
        /\ stats # NoStats)
    => /\ stats.exc = "none"
       /\ stats.total_jobs = Len(result_df.index)
       /\ stats.total_jobs = stats.matched_jobs + stats.unmatched_jobs
       /\ stats.matched_jobs = Cardinality(Matched(result_df))
       /\ stats.total_jobs = 0 => stats.match_rate = 0
       /\ stats.matched_jobs = 0 => stats.average_confidence = 0
       /\ LET top == stats.top_unmatched_locations
              kept == {top[i][1] : i \in 1..Len(top)}
          IN  /\ Len(top) <= 5
              /\ Cardinality(kept) = Len(top)
              /\ \A i \in 1..Len(top) :
                    /\ top[i][1].k = "str"
                    /\ top[i][2] = UnmatchedCount(top[i][1])
                    /\ top[i][2] >= 1
                    /\ \A q \in Unmatched :
                          LET v == result_df.data["location"][q]
                          IN  (v.k = "str" /\ v \notin kept)
                              => UnmatchedCount(v) <= top[i][2]

\* a call of match_location_to_city that went past the test for a null or
\* empty location, the city candidate it extracted, and the score of every
\* city name and of every alias key for that candidate
ReachedStages ==
    /\ Resolved
    /\ call.exc = "none"
    /\ call.location.k = "str"
    /\ call.location.s # <<>>
candidate == _extract_city_from_location(call.location)
processed_candidate == full_process(full_process(candidate, FALSE), TRUE)
city_scores == scores_of(processed_candidate, cities.City)
alias_scores == scores_of(processed_candidate, DictKeys(city_variations))

\* the greatest score, and the first place that holds it
BestScore(scores) == Max({scores[i] : i \in 1..Len(scores)} \cup {-1})
FirstBest(scores) == Min({i \in 1..Len(scores) : scores[i] = BestScore(scores)})

\* the stage that succeeds first, for the candidate cand with the scores
\* names of the city names and keys of the alias keys, at the threshold t
LookupHits(cand) == DictHas(city_variations, cand)
NamesHit(cand, names, t) ==
    /\ ~LookupHits(cand)
    /\ names # <<>>
    /\ BestScore(names) >= t
KeysHit(cand, names, keys, t) ==
    /\ ~LookupHits(cand)
    /\ ~NamesHit(cand, names, t)
    /\ keys # <<>>
    /\ BestScore(keys) >= t

AliasLookupHits == LookupHits(candidate)
CityStageHits == NamesHit(candidate, city_scores, call.threshold)
AliasStageHits == KeysHit(candidate, city_scores, alias_scores, call.threshold)

\* the call c gave what the first successful stage gives
StagesInOrder(c, cand, names, keys) ==
    /\ LookupHits(cand)
          => /\ c.city = Str(DictGet(city_variations, cand))
             /\ c.conf = 100
    /\ NamesHit(cand, names, c.threshold)
          => /\ c.conf = BestScore(names)
             /\ \E i \in 1..Len(cities.City) :
                   /\ c.city = Str(cities.City[i])
                   /\ names[i] = c.conf
    /\ KeysHit(cand, names, keys, c.threshold)
          => /\ c.conf = BestScore(keys)
             /\ \E i \in 1..Len(city_variations) :
                   /\ c.city = Str(city_variations[i][2])
                   /\ keys[i] = c.conf
    /\ c.city = None
          => /\ ~LookupHits(cand)
             /\ ~NamesHit(cand, names, c.threshold)
             /\ ~KeysHit(cand, names, keys, c.threshold)

\* C19: the stages are applied in order and the first success wins: a
\* candidate that is no alias key and whose best city-name score reaches the
\* threshold gives a city with that score, whatever the alias keys score; the
\* alias keys decide only when the city names fail; and (None, 0) comes back
\* only when the lookup and both fuzzy stages fail
C19_FirstSuccessfulStageWins ==
    ReachedStages => StagesInOrder(call, candidate, city_scores, alias_scores)

\* a city name reaches the threshold of 60 or more and decides the result,
\* while an alias key scores higher
C19_Witness ==
    /\ ReachedStages
    /\ CityStageHits
    /\ call.threshold >= 60
    /\ BestScore(alias_scores) > BestScore(city_scores)
    /\ call.conf = BestScore(city_scores)

\* the call c gave the first of the city names, or of the alias keys, that
\* hold the greatest score
FirstOfEqualScores(c, cand, names, keys) ==
    /\ NamesHit(cand, names, c.threshold)
          => c.city = Str(cities.City[FirstBest(names)])
    /\ KeysHit(cand, names, keys, c.threshold)
          => c.city = Str(city_variations[FirstBest(keys)][2])

\* C20: when several city names, or several alias keys, share the greatest
\* score, the result is the one that comes first: in the order of the city
\* list for names, in the insertion order of the alias index for keys
C20_FirstOfEqualScoresWins ==
    ReachedStages
    => FirstOfEqualScores(call, candidate, city_scores, alias_scores)

\* two city names share the greatest score, which is above 0 and reaches the
\* threshold, and the first of them is the result
C20_Witness ==
    /\ ReachedStages
    /\ CityStageHits
    /\ call.threshold >= 60
    /\ \E i \in 1..Len(cities.City) :
          /\ i > FirstBest(city_scores)
          /\ city_scores[i] = BestScore(city_scores)
    /\ call.city = Str(cities.City[FirstBest(city_scores)])

\* the city names of the catalog
CityColumn == {Str(cities.City[i]) : i \in 1..Len(cities.City)}

\* C21: a call of match_location_to_city that returns gives (None, 0) or a
\* city of the catalog's City column with its score, never a name the
\* catalog does not hold, for every catalog, location and threshold
C21_CityIsFromCatalog ==
    (Resolved /\ call.exc = "none")
    => \/ call.city = None /\ call.conf = 0
       \/ call.city \in CityColumn

\* the alias stage decides at a threshold of 60 or more, through a key that
\* is not itself a city name, and the result is the city the key stands for
C21_Witness ==
    /\ ReachedStages
    /\ AliasStageHits
    /\ call.threshold >= 60
    /\ Str(city_variations[FirstBest(alias_scores)][1]) \notin CityColumn
    /\ call.city = Str(city_variations[FirstBest(alias_scores)][2])
    /\ call.city \in CityColumn

\* the location was resolved twice, and both calls returned a city
MatchedTwice ==
    /\ Resolved
    /\ runs = 1
    /\ first_call.call.exc = "none"
    /\ call.exc = "none"
    /\ first_call.call.city # None
    /\ call.city # None

\* C22: for one catalog and location, two calls of match_location_to_city
\* that both return a match, at thresholds t1 < t2, return the same city and
\* the same confidence
C22_ThresholdKeepsTheMatch ==
    (MatchedTwice /\ first_call.call.threshold < call.threshold)
    => /\ call.city = first_call.call.city
       /\ call.conf = first_call.call.conf

\* no two cities of the catalog have the same name
DistinctNames ==
    \A i, j \in 1..Len(cities.City) :
        cities.City[i] = cities.City[j] => i = j

\* C23: on a catalog with pairwise distinct city names and at a threshold of
\* at most 100, match_location_to_city applied to the canonical name of a
\* city of the catalog returns that city
C23_CanonicalNameResolvesToItself ==
    (/\ Resolved
     /\ DistinctNames
     /\ call.threshold <= 100
     /\ call.location \in CityColumn)
    => (call.exc = "none" /\ call.city = call.location)

\* C24: _clean_location is idempotent: cleaning what _clean_location
\* returned gives it back unchanged, for every input string
C24_CleanIsIdempotent ==
    (call.op = "_clean_location" /\ runs = 1)
    => call.city = first_call.call.city

====
